---- MODULE Spec2Model ----
(***************************************************************************)
(* Model of the live-state core of dworek: the live Factory                *)
(* (server/app/live/factory/Factory.js) and the live Shop.                 *)
(*                                                                         *)
(* Every asynchronous method is modelled at callback granularity: one      *)
(* action per callback the code registers, so that TLC explores every      *)
(* order in which the lookups can call back, and every lookup may call     *)
(* back an error.                                                          *)
(***************************************************************************)
EXTENDS Integers, Sequences, FiniteSets, TLC

(***************************************************************************)
(* Bounds of the model.                                                    *)
(***************************************************************************)
NumUsers == 2
NumTeams == 2
MaxStrength == 1
MaxDefence == 1
MaxLevel == 2
MaxStock == 2
MaxFailures == 1
MaxPings == 3
MaxDuration == 1
NumTicks == 2
NumShops == 2
NumUpdates == 2
MaxPrice == 3

\* Live users of the game; a null live user is NullUser.
Users == 1..NumUsers
NullUser == 0
UndefinedUser == NullUser - 1

\* Teams of the game; a null team is NoTeam.
Teams == 1..NumTeams
Ticks == 1..NumTicks
ShopIds == 1..NumShops
UpdCalls == 1..NumUpdates
NoShop == 0
NoTeam == 0

\* A null user strength, and the strengths the model gives a user: none,
\* zero and the largest.
NullStrength == -1
Strengths == {NullStrength, 0, MaxStrength}

\* The defences and the in and out stocks the model gives a factory.
Defences == {0, MaxDefence}
Stocks == {0, MaxStock}

\* A team or strength no lookup has returned yet: the model leaves the value
\* open until the first lookup that reads it, which fixes it.
Unknown == NullStrength - 1

\* The JavaScript number NaN; every other number of the model is above it.
NaN == Unknown - 1

\* The stages of a game run from 0 to the stage of a finished game.
StageFinished == 2
GameStages == 0..StageFinished

VARIABLES
    userVisibleMem,   \* Factory._userVisibleMem
    userRangeMem,     \* Factory._userRangeMem
    userPingMem,      \* Factory._userPingMem
    shopRangeMem,     \* Shop._userRangeMem
    memRet,           \* value returned by the last set...Memory call
    userTeam,         \* team of each live user (NoTeam: null)
    userStrength,     \* strength of each live user (NullStrength: null)
    userRecent,       \* liveUser.hasRecentLocation()
    factory,          \* the fields of the factory model
    conq,             \* the Factory.getConquer call in flight
    atk,              \* the Factory.attack call of each live user
    gameStage,        \* the stage of the game
    userState,        \* the state of each user in the game
    vis,              \* the Factory.getVisibilityState call in flight
    hidden,           \* the fields of the two factories sendData is compared on
    send,             \* the Factory.sendData call in flight
    pings,            \* the Factory.pingFor calls made so far
    tick,             \* the Factory.tick calls
    shops,            \* shopManager.shops, the list of live shops
    balance,          \* the out and money balances of the session's game user
    buy,              \* the shop buy-out request being handled
    shop,             \* the handover state of each live shop
    upd,              \* the Factory.updateVisibilityState calls
    rng               \* the getRange call in flight

memVars == <<userVisibleMem, userRangeMem, userPingMem, shopRangeMem, memRet>>
envVars == <<userTeam, userStrength, userRecent>>
gameVars == <<gameStage, userState>>
sendVars == <<hidden, send>>
lateVars == <<shop, upd, rng>>
moreVars == <<tick, shops, balance, buy, lateVars>>
firstVars ==
    <<memVars, envVars, factory, conq, atk, gameVars, vis, sendVars, pings>>
vars ==
    <<memVars, envVars, factory, conq, atk, gameVars, vis, sendVars, pings,
      moreVars>>

\* What the steps of each method leave unchanged, besides the variables the
\* step itself names.
memFrame ==
    <<envVars, factory, conq, atk, gameVars, vis, sendVars, pings, moreVars>>
conqFrame ==
    <<memVars, userRecent, factory, atk, gameVars, vis, sendVars, pings,
      moreVars>>
atkFrame ==
    <<memVars, userStrength, userRecent, conq, gameVars, vis, sendVars, pings,
      moreVars>>
visFrame ==
    <<memVars, userStrength, userRecent, factory, conq, atk, gameStage,
      sendVars, pings, moreVars>>
sendFrame ==
    <<memVars, envVars, factory, conq, atk, gameVars, vis, hidden, pings,
      moreVars>>
pingFrame == <<envVars, factory, conq, atk, gameVars, vis, sendVars, moreVars>>
tickFrame ==
    <<memVars, envVars, conq, atk, gameVars, vis, sendVars, pings, shops,
      balance, buy, lateVars>>
buyFrame == <<firstVars, tick, shops, lateVars>>
shopFrame == <<firstVars, tick, balance, buy, upd, rng>>
updFrame ==
    <<envVars, factory, conq, atk, gameVars, vis, sendVars, pings, tick,
      shops, balance, buy, shop, rng>>
rangeFrame ==
    <<envVars, factory, conq, atk, gameVars, vis, sendVars, pings, tick,
      shops, balance, buy, shop, upd>>

(***************************************************************************)
(* JavaScript arrays.                                                      *)
(***************************************************************************)
RECURSIVE IndexFrom(_, _, _)
IndexFrom(arr, x, i) ==
    IF i > Len(arr) THEN -1
    ELSE IF arr[i] = x THEN i - 1
    ELSE IndexFrom(arr, x, i + 1)

\* Array.prototype.indexOf: the zero-based index of the first x, or -1.
IndexOf(arr, x) == IndexFrom(arr, x, 1)

\* Array.prototype.push.
Push(arr, x) == Append(arr, x)

\* Array.prototype.splice(start, 1): a negative start counts from the end.
Splice1(arr, start) ==
    LET n == Len(arr)
        s == IF start < 0 THEN (IF n + start < 0 THEN 0 ELSE n + start)
             ELSE (IF start > n THEN n ELSE start)
    IN  [i \in 1..(IF s < n THEN n - 1 ELSE n) |->
            IF i <= s THEN arr[i] ELSE arr[i + 1]]

Range(arr) == {arr[i] : i \in 1..Len(arr)}

(***************************************************************************)
(* The visibility, range and ping memories.                                *)
(***************************************************************************)
IsInVisibilityMemory(liveUser) == IndexOf(userVisibleMem, liveUser) >= 0

IsInRangeMemory(liveUser) == IndexOf(userRangeMem, liveUser) >= 0

IsInPingMemory(liveUser) == IndexOf(userPingMem, liveUser) >= 0

ShopIsInRangeMemory(liveUser) == IndexOf(shopRangeMem, liveUser) >= 0

\* A set...Memory that removes the first element instead of the user's.
SetMemoryWrongRemove(mem, liveUser, state) ==
    LET lastState == IndexOf(mem, liveUser) >= 0
    IN  IF lastState = state THEN [mem |-> mem, ret |-> FALSE]
        ELSE IF state THEN [mem |-> Push(mem, liveUser), ret |-> TRUE]
        ELSE [mem |-> Splice1(mem, 0), ret |-> TRUE]

\* The body shared by the four set...Memory methods: the new array and the
\* returned flag.
SetMemory(mem, liveUser, state) ==
    LET lastState == IndexOf(mem, liveUser) >= 0
    IN  IF lastState = state THEN [mem |-> mem, ret |-> FALSE]
        ELSE IF state THEN [mem |-> Push(mem, liveUser), ret |-> TRUE]
        ELSE [mem |-> Splice1(mem, IndexOf(mem, liveUser)), ret |-> TRUE]

SetInVisibilityMemory(liveUser, visible) ==
    /\ userVisibleMem' = SetMemory(userVisibleMem, liveUser, visible).mem
    /\ memRet' = SetMemory(userVisibleMem, liveUser, visible).ret
    /\ UNCHANGED <<userRangeMem, userPingMem, shopRangeMem>>

SetInRangeMemory(liveUser, inRange) ==
    /\ userRangeMem' = SetMemory(userRangeMem, liveUser, inRange).mem
    /\ memRet' = SetMemory(userRangeMem, liveUser, inRange).ret
    /\ UNCHANGED <<userVisibleMem, userPingMem, shopRangeMem>>

SetInPingMemory(liveUser, isPinged) ==
    /\ userPingMem' = SetMemory(userPingMem, liveUser, isPinged).mem
    /\ memRet' = SetMemory(userPingMem, liveUser, isPinged).ret
    /\ UNCHANGED <<userVisibleMem, userRangeMem, shopRangeMem>>

ShopSetInRangeMemory(liveUser, inRange) ==
    /\ shopRangeMem' = SetMemory(shopRangeMem, liveUser, inRange).mem
    /\ memRet' = SetMemory(shopRangeMem, liveUser, inRange).ret
    /\ UNCHANGED <<userVisibleMem, userRangeMem, userPingMem>>

MemInit ==
    /\ userVisibleMem = <<>>
    /\ userRangeMem = <<>>
    /\ userPingMem = <<>>
    /\ shopRangeMem = <<>>
    /\ memRet = FALSE

EnvFixed ==
    /\ userTeam = [u \in Users |-> Unknown]
    /\ userStrength = [u \in Users |-> Unknown]
    /\ userRecent = [u \in Users |-> FALSE]

FactoryFixed ==
    factory = [team |-> NoTeam, level |-> 1, in |-> 0, out |-> 0,
               defence |-> 0, deleted |-> FALSE, loaded |-> TRUE]

\* The state of a user no lookup has returned yet.
UnknownState ==
    [known |-> FALSE, spectator |-> FALSE, player |-> FALSE, special |-> FALSE]

GameFixed ==
    /\ gameStage = 0
    /\ userState = [u \in Users |-> UnknownState]

\* The result object of getVisibilityState.
VisResultObject ==
    [ally |-> FALSE, visible |-> FALSE, inRange |-> FALSE, pinged |-> FALSE]

\* getVisibilityState before it is called.
VisIdle ==
    [phase |-> "idle", user |-> NullUser, pend |-> {}, latch |-> 0,
     allyLatch |-> 0, allyThen |-> FALSE, calledBack |-> FALSE, cbs |-> <<>>,
     factoryTeam |-> NoTeam, userTeam |-> NoTeam, gameStage |-> 0,
     userState |-> UnknownState, resultObject |-> VisResultObject,
     rangeRun |-> FALSE, rangeResult |-> FALSE]

\* The two factories sendData is compared on.
Worlds == {1, 2}

\* What sendData looks up of factory w besides the visibility for the user
\* and the user's permission: the two factories differ in every field.
Hidden(w) ==
    [name |-> w, level |-> w, defence |-> w, conquerValue |-> w,
     conquerUserCount |-> w, in |-> w, out |-> w, creatorName |-> w,
     teamName |-> w, productionIn |-> w, productionOut |-> w,
     defenceUpgrades |-> w, nextLevelCost |-> w, inRange |-> w = 1,
     ally |-> w = 1]

\* sendData before it is called; factoryData starts as {}.
SendIdle ==
    [phase |-> "idle", pend |-> {}, latch |-> 0, calledBack |-> FALSE,
     cbs |-> <<>>, failures |-> 0,
     factoryData |-> [w \in Worlds |-> <<>>],
     packets |-> [w \in Worlds |-> <<>>]]

SendFixed ==
    /\ hidden = [w \in Worlds |-> Hidden(w)]
    /\ send = SendIdle
    /\ pings = <<>>

\* Every tick before it is called.
TickIdle ==
    [i \in Ticks |->
        [phase |-> "idle", pend |-> {}, latch |-> 0, calledBack |-> FALSE,
         cbs |-> <<>>, productionIn |-> 0, productionOut |-> 0, valueIn |-> 0,
         wrote |-> {}, broadcasts |-> 0, before |-> <<>>]]

\* A buy-out request before it arrives.
BuyIdle ==
    [phase |-> "idle", pend |-> {}, calledBack |-> FALSE, replies |-> <<>>,
     packet |-> <<>>, sessionValid |-> FALSE, shop |-> NoShop,
     liveUser |-> Unknown, inRange |-> "unknown", price |-> 0,
     outCurrent |-> 0,
     moneyCurrent |-> 0, outAmount |-> 0, moneyAmount |-> 0, before |-> <<>>]

BuyFixed ==
    /\ shops = <<>>
    /\ balance = [out |-> 0, money |-> 0]
    /\ buy = BuyIdle

\* Every shop before its handover timer is set.
ShopIdle ==
    [s \in ShopIds |->
        [timer |-> "none", pend |-> {}, newUser |-> NullUser, delta |-> 0,
         kept |-> FALSE, transferred |-> FALSE, scheduled |-> FALSE,
         teamModelNull |-> FALSE, notes |-> <<>>]]

\* Every updateVisibilityState call before it is made.
UpdIdle ==
    [i \in UpdCalls |->
        [phase |-> "idle", user |-> NullUser, pend |-> {},
         data |-> [visible |-> FALSE, inRange |-> FALSE],
         stateChanged |-> FALSE, broadcasts |-> 0, cbs |-> <<>>]]

\* getRange before it is called.
RangeIdle ==
    [object |-> "none", user |-> NullUser, pend |-> {}, latch |-> 0,
     calledBack |-> FALSE, level |-> 0, cbs |-> <<>>]

LateFixed ==
    /\ shop = ShopIdle
    /\ upd = UpdIdle
    /\ rng = RangeIdle

MoreFixed ==
    /\ tick = TickIdle
    /\ BuyFixed
    /\ LateFixed

\* Every live user's attack before it is called.
AtkIdle ==
    [u \in Users |->
        [phase |-> "idle", pend |-> {}, latch |-> 0, calledBack |-> FALSE,
         cbs |-> <<>>, factoryTeam |-> NoTeam, userTeam |-> NoTeam,
         conquer |-> 0, factoryLevel |-> 0, factoryIn |-> 0, factoryOut |-> 0,
         factoryDefence |-> 0, wrote |-> {}, destroyed |-> FALSE,
         gotConquer |-> FALSE, before |-> <<>>]]

ConqIdle ==
    [pc |-> "idle", pend |-> {}, latch |-> 0, conquerValue |-> 0,
     userCount |-> 0, calledBack |-> FALSE, cbs |-> <<>>,
     factoryTeam |-> NoTeam,
     userLatch |-> [u \in Users |-> 0],
     ally |-> [u \in Users |-> FALSE],
     strength |-> [u \in Users |-> Unknown]]

(***************************************************************************)
(* Factory.getConquer.                                                     *)
(*                                                                         *)
(* conq.pend holds the lookups that were started and have not called back  *)
(* yet; conq.cbs is the sequence of invocations of the getConquer callback.*)
(***************************************************************************)
\* liveUser.isTeam(otherTeam): true when both teams are known and equal.
UserIsTeam(liveUserTeam, otherTeam) ==
    /\ otherTeam # NoTeam
    /\ liveUserTeam # NoTeam
    /\ liveUserTeam = otherTeam

\* A lookup of the team of a live user returns t.
ReadUserTeam(u, t) ==
    /\ userTeam[u] \in {Unknown, t}
    /\ userTeam' = [userTeam EXCEPT ![u] = t]

\* A lookup of the strength of a live user returns s.
ReadUserStrength(u, s) ==
    /\ userStrength[u] \in {Unknown, s}
    /\ userStrength' = [userStrength EXCEPT ![u] = s]

\* A conquer term that counts allies like enemies.
ConquerUserTermNoSign(ally, strength) == strength

\* What one counted user adds to the conquer value.
ConquerUserTerm(ally, strength) == IF ally THEN -strength ELSE strength

\* callbackError of getConquer.
ConqCallbackError(c) ==
    [c EXCEPT !.cbs = IF c.calledBack THEN @
                      ELSE Append(@, [err |-> TRUE, value |-> 0, users |-> 0]),
              !.calledBack = TRUE]

\* CallbackLatch.resolve on the main latch of getConquer, whose `then`
\* callback calls back the conquer value and the user count.
ConqLatchResolve(c) ==
    LET n == IF c.latch > 0 THEN c.latch - 1 ELSE 0
    IN  IF n <= 0
        THEN [c EXCEPT !.latch = n,
                       !.cbs = Append(@, [err |-> FALSE, value |-> c.conquerValue,
                                           users |-> c.userCount])]
        ELSE [c EXCEPT !.latch = n]

\* CallbackLatch.resolve on the latch of one user, whose `then` callback
\* processes the user's team and strength.
ConqUserLatchResolve(c, u) ==
    LET n == IF c.userLatch[u] > 0 THEN c.userLatch[u] - 1 ELSE 0
        d == [c EXCEPT !.userLatch[u] = n]
    IN  IF n > 0 THEN d
        ELSE IF d.strength[u] # NullStrength
        THEN ConqLatchResolve(
                 [d EXCEPT !.conquerValue = @ + ConquerUserTerm(d.ally[u], d.strength[u]),
                           !.userCount = @ + 1])
        ELSE ConqLatchResolve(d)

\* The users of the range memory the loop of getConquer starts lookups for.
ConqLoopUsers == {u \in Range(userRangeMem) : userRecent[u]}

GetConquer ==
    /\ conq.pc = "idle"
    /\ conq' = [ConqIdle EXCEPT !.pc = "run", !.latch = 2,
                                !.pend = {<<"defence", NullUser>>, <<"team", NullUser>>}]
    /\ UNCHANGED <<userTeam, userStrength, conqFrame>>

ConquerDefenceCb ==
    /\ <<"defence", NullUser>> \in conq.pend
    /\ \E err \in BOOLEAN :
         LET c == [conq EXCEPT !.pend = @ \ {<<"defence", NullUser>>}]
         IN  conq' = IF err THEN ConqCallbackError(c)
                     ELSE ConqLatchResolve(
                              [c EXCEPT !.conquerValue = @ - factory.defence])
    /\ UNCHANGED <<userTeam, userStrength, conqFrame>>

ConquerTeamCb ==
    /\ <<"team", NullUser>> \in conq.pend
    /\ \E err \in BOOLEAN :
         LET c == [conq EXCEPT !.pend = @ \ {<<"team", NullUser>>}]
         IN  conq' = IF err THEN ConqCallbackError(c)
                     ELSE ConqLatchResolve(
                              [c EXCEPT !.factoryTeam = factory.team,
                                        !.latch = @ + Cardinality(ConqLoopUsers),
                                        !.userLatch = [u \in Users |->
                                            IF u \in ConqLoopUsers THEN 2 ELSE 0],
                                        !.pend = @ \cup
                                            {<<"isTeam", u>> : u \in ConqLoopUsers} \cup
                                            {<<"strength", u>> : u \in ConqLoopUsers}])
    /\ UNCHANGED <<userTeam, userStrength, conqFrame>>

ConquerIsTeamCb ==
    /\ \E u \in Users :
         /\ <<"isTeam", u>> \in conq.pend
         /\ LET c == [conq EXCEPT !.pend = @ \ {<<"isTeam", u>>}]
            IN  \/ /\ conq' = ConqCallbackError(c)
                   /\ UNCHANGED userTeam
                \/ \E t \in {NoTeam} \cup Teams :
                     /\ ReadUserTeam(u, t)
                     /\ conq' = ConqUserLatchResolve(
                            [c EXCEPT !.ally[u] = UserIsTeam(t, c.factoryTeam)], u)
    /\ UNCHANGED <<userStrength, conqFrame>>

ConquerStrengthCb ==
    /\ \E u \in Users :
         /\ <<"strength", u>> \in conq.pend
         /\ LET c == [conq EXCEPT !.pend = @ \ {<<"strength", u>>}]
            IN  \/ /\ conq' = ConqCallbackError(c)
                   /\ UNCHANGED userStrength
                \/ \E s \in Strengths :
                     /\ ReadUserStrength(u, s)
                     /\ conq' = ConqUserLatchResolve([c EXCEPT !.strength[u] = s], u)
    /\ UNCHANGED <<userTeam, conqFrame>>

\* The arrays a memory can hold: the users of a set in any order.
RECURSIVE Arrangements(_)
Arrangements(S) ==
    IF S = {} THEN {<<>>}
    ELSE UNION {{Append(a, x) : a \in Arrangements(S \ {x})} : x \in S}

Memories == UNION {Arrangements(S) : S \in SUBSET Users}

\* The array a memory holds after the users of S entered it in ascending order.
RECURSIVE Ascending(_)
Ascending(S) ==
    IF S = {} THEN <<>>
    ELSE LET m == CHOOSE x \in S : \A y \in S : y <= x
         IN  Append(Ascending(S \ {m}), m)

AscendingMemories == {Ascending(S) : S \in SUBSET Users}

InitConquer ==
    /\ userVisibleMem = <<>>
    /\ userRangeMem \in AscendingMemories
    /\ userPingMem = <<>>
    /\ shopRangeMem = <<>>
    /\ memRet = FALSE
    /\ userTeam = [u \in Users |-> Unknown]
    /\ userStrength = [u \in Users |-> Unknown]
    /\ userRecent \in [Users -> BOOLEAN]
    /\ factory \in [team : {NoTeam} \cup Teams, level : {1}, in : {0}, out : {0},
                    defence : Defences, deleted : {FALSE}, loaded : {TRUE}]
    /\ conq = ConqIdle
    /\ atk = AtkIdle
    /\ GameFixed
    /\ vis = VisIdle
    /\ SendFixed
    /\ MoreFixed

NextConquer ==
    \/ GetConquer
    \/ ConquerDefenceCb
    \/ ConquerTeamCb
    \/ ConquerIsTeamCb
    \/ ConquerStrengthCb

SpecConquer == InitConquer /\ [][NextConquer]_vars

RECURSIVE SumOver(_, _)
SumOver(S, f) ==
    IF S = {} THEN 0
    ELSE LET x == CHOOSE y \in S : TRUE
         IN  f[x] + SumOver(S \ {x}, f)

\* The users C1 counts: in the range memory, with a recent location and a
\* strength that is not null.
CountedUsers ==
    {u \in Users : /\ u \in Range(userRangeMem)
                   /\ userRecent[u]
                   /\ userStrength[u] \notin {NullStrength, Unknown}}

SignedStrength ==
    [u \in Users |-> IF userTeam[u] # NoTeam /\ userTeam[u] = factory.team
                     THEN -userStrength[u] ELSE userStrength[u]]

\* C1: getConquer calls back conquerValue = the signed sum of the strengths
\* of the counted users (allies negative, others positive) minus the
\* factory's defence, and userCount = the number of counted users.
C1_ConquerValue ==
    \A i \in 1..Len(conq.cbs) :
        ~conq.cbs[i].err =>
            /\ conq.cbs[i].value = SumOver(CountedUsers, SignedStrength) - factory.defence
            /\ conq.cbs[i].users = Cardinality(CountedUsers)

\* getConquer has called back a value that counted an ally and an enemy,
\* while a user of the range memory was left out.
C1_Witness ==
    /\ Len(conq.cbs) = 1
    /\ ~conq.cbs[1].err
    /\ conq.cbs[1].users = 2
    /\ \E u, v \in CountedUsers :
         /\ userTeam[u] = factory.team
         /\ userTeam[v] # factory.team
         /\ userStrength[u] > 0
         /\ userStrength[v] > 0

(***************************************************************************)
(* Factory.attack.                                                         *)
(*                                                                         *)
(* atk[u] is the call attack(u, callback): pend holds the lookups and      *)
(* writes that have not called back yet, phase names the latch.then the    *)
(* call is waiting for, cbs is the sequence of invocations of the attack   *)
(* callback ("null" on success, the error otherwise), wrote holds the      *)
(* factory fields this call has written.                                   *)
(***************************************************************************)
\* The values getConquer can call back to attack.
ConquerValues == {-MaxDefence, 0, MaxStrength}

\* gameConfig.factory.attackNewIn, attackNewOut and attackNewDefence: the
\* game configuration's functions of the old value.
AttackNewIn(value) == value \div 2

AttackNewOut(value) == 0

AttackNewDefence(value) == IF value > 0 THEN value - 1 ELSE 0

\* if(!calledBack) callback(err); calledBack = true;
AtkError(a, e) ==
    [a EXCEPT !.cbs = IF a.calledBack THEN @ ELSE Append(@, e),
              !.calledBack = TRUE]

\* An ally check that lets a user take over a factory of the user's own team.
AtkIsAllyNever(fTeam, uTeam) == FALSE

\* factoryTeam !== null && factoryTeam.getId().equals(userTeam.getId())
AtkIsAlly(fTeam, uTeam) ==
    fTeam # NoTeam /\ fTeam = uTeam

\* if(!calledBack) callback(null);
AtkCallbackNull(a) ==
    [a EXCEPT !.cbs = IF a.calledBack THEN @ ELSE Append(@, "null")]

\* A conquer check that lets a conquer value of zero pass.
AtkConquerTooLowBelowZero(result) == result < 0

\* result <= 0: the conquer value is not above zero.
AtkConquerTooLow(result) == result <= 0

\* A level check that transfers a factory of level one.
AtkDestroysNever(factoryLevel) == FALSE

\* factoryLevel <= 1: the attack destroys the factory.
AtkDestroys(factoryLevel) == factoryLevel <= 1

\* The callback the attack gave to latch.then, by the phase it was given in.
AtkThen(a) ==
    CASE a.phase = "check" ->
           IF AtkIsAlly(a.factoryTeam, a.userTeam)
           THEN [AtkError(a, "User can't take over ally factory")
                    EXCEPT !.phase = "failed"]
           ELSE [a EXCEPT !.phase = "level", !.pend = {"getLevel"}]
      [] a.phase = "destroyNames" ->
           [a EXCEPT !.phase = "destroy", !.pend = {"delete"}]
      [] a.phase = "read" ->
           [a EXCEPT !.phase = "config", !.pend = {"getConfig"}]
      [] a.phase = "write" ->
           AtkCallbackNull(
               [a EXCEPT !.phase = "captured", !.latch = 3,
                         !.pend = {"getName", "userGetName", "teamGetName"}])
      [] a.phase = "captured" ->
           [a EXCEPT !.phase = "done"]
      [] OTHER -> a

\* CallbackLatch.resolve on the latch of the attack.
AtkLatchResolve(a) ==
    LET n == IF a.latch > 0 THEN a.latch - 1 ELSE 0
    IN  IF n <= 0 THEN AtkThen([a EXCEPT !.latch = 0])
        ELSE [a EXCEPT !.latch = n]

AtkTake(u, lookup) == [atk[u] EXCEPT !.pend = @ \ {lookup}]

\* No attack has been started yet.
AtkNoneStarted == \A u \in Users : atk[u].phase = "idle"

Attack(u) ==
    /\ AtkNoneStarted
    /\ factory.loaded
    /\ atk' = [atk EXCEPT ![u] =
                 [@ EXCEPT !.phase = "check", !.latch = 3, !.before = factory,
                           !.pend = {"getTeam", "userGetTeam", "getConquer"}]]
    /\ UNCHANGED <<userTeam, factory, atkFrame>>

AttackFactoryTeamCb(u) ==
    /\ "getTeam" \in atk[u].pend
    /\ \E err \in BOOLEAN :
         atk' = [atk EXCEPT ![u] =
                   IF err THEN AtkError(AtkTake(u, "getTeam"), "Error")
                   ELSE AtkLatchResolve(
                            [AtkTake(u, "getTeam") EXCEPT !.factoryTeam = factory.team])]
    /\ UNCHANGED <<userTeam, factory, atkFrame>>

AttackUserTeamCb(u) ==
    /\ "userGetTeam" \in atk[u].pend
    /\ \/ /\ atk' = [atk EXCEPT ![u] = AtkError(AtkTake(u, "userGetTeam"), "Error")]
          /\ UNCHANGED userTeam
       \/ \E t \in {NoTeam} \cup Teams :
            /\ ReadUserTeam(u, t)
            /\ atk' = [atk EXCEPT ![u] =
                         IF t = NoTeam
                         THEN AtkError(AtkTake(u, "userGetTeam"), "User doesn't have team")
                         ELSE AtkLatchResolve(
                                  [AtkTake(u, "userGetTeam") EXCEPT !.userTeam = t])]
    /\ UNCHANGED <<factory, atkFrame>>

AttackConquerCb(u) ==
    /\ "getConquer" \in atk[u].pend
    /\ \/ atk' = [atk EXCEPT ![u] = AtkError(AtkTake(u, "getConquer"), "Error")]
       \/ \E result \in ConquerValues :
            atk' = [atk EXCEPT ![u] =
                      IF AtkConquerTooLow(result)
                      THEN AtkError([AtkTake(u, "getConquer") EXCEPT
                                        !.conquer = result, !.gotConquer = TRUE],
                                    "Conquer value must be above zero")
                      ELSE AtkLatchResolve(
                               [AtkTake(u, "getConquer") EXCEPT
                                   !.conquer = result, !.gotConquer = TRUE])]
    /\ UNCHANGED <<userTeam, factory, atkFrame>>

AttackLevelCb(u) ==
    /\ "getLevel" \in atk[u].pend
    /\ \E err \in BOOLEAN :
         atk' = [atk EXCEPT ![u] =
                   IF err THEN AtkError(AtkTake(u, "getLevel"), "Error")
                   ELSE IF AtkDestroys(factory.level)
                   THEN [AtkTake(u, "getLevel") EXCEPT
                            !.factoryLevel = factory.level,
                            !.phase = "destroyNames", !.latch = 3,
                            !.pend = {"getName", "userGetName", "teamGetName"}]
                   ELSE [AtkTake(u, "getLevel") EXCEPT
                            !.factoryLevel = factory.level,
                            !.phase = "read", !.latch = 3,
                            !.pend = {"getIn", "getOut", "getDefence"}]]
    /\ UNCHANGED <<userTeam, factory, atkFrame>>

\* The callbacks of getName, user.getName and userTeam.getName, in the
\* destroy branch and after the capture.
AttackNameCb(u) ==
    /\ \E lookup \in {"getName", "userGetName", "teamGetName"}, err \in BOOLEAN :
         /\ lookup \in atk[u].pend
         /\ atk' = [atk EXCEPT ![u] =
                      IF err THEN AtkError(AtkTake(u, lookup), "Error")
                      ELSE AtkLatchResolve(AtkTake(u, lookup))]
    /\ UNCHANGED <<userTeam, factory, atkFrame>>

\* Factory.destroy called back to the attack: the model is deleted and the
\* live factory unloaded unless the delete failed.  The attack's callback of
\* destroy takes no parameter and tests the err of the getLevel callback,
\* which is null, so it goes on to send the FACTORY_DESTROYED packets either
\* way; it does not call the attack callback.
AttackDestroyCb(u) ==
    /\ "delete" \in atk[u].pend
    /\ \E err \in BOOLEAN :
         /\ atk' = [atk EXCEPT ![u] =
                      [AtkTake(u, "delete") EXCEPT !.phase = "destroyed",
                                                  !.destroyed = ~err]]
         /\ factory' = IF err THEN factory
                       ELSE [factory EXCEPT !.deleted = TRUE, !.loaded = FALSE]
    /\ UNCHANGED <<userTeam, atkFrame>>

\* The callbacks of factoryModel.getIn, getOut and getDefence.
AttackReadCb(u) ==
    /\ \E lookup \in {"getIn", "getOut", "getDefence"}, err \in BOOLEAN :
         /\ lookup \in atk[u].pend
         /\ atk' = [atk EXCEPT ![u] =
                      IF err THEN AtkError(AtkTake(u, lookup), "Error")
                      ELSE AtkLatchResolve(
                               CASE lookup = "getIn" ->
                                      [AtkTake(u, lookup) EXCEPT !.factoryIn = factory.in]
                                 [] lookup = "getOut" ->
                                      [AtkTake(u, lookup) EXCEPT !.factoryOut = factory.out]
                                 [] OTHER ->
                                      [AtkTake(u, lookup) EXCEPT
                                          !.factoryDefence = factory.defence])]
    /\ UNCHANGED <<userTeam, factory, atkFrame>>

AttackConfigCb(u) ==
    /\ "getConfig" \in atk[u].pend
    /\ \E err \in BOOLEAN :
         atk' = [atk EXCEPT ![u] =
                   IF err THEN AtkError(AtkTake(u, "getConfig"), "Error")
                   ELSE [AtkTake(u, "getConfig") EXCEPT
                            !.factoryIn = AttackNewIn(@),
                            !.factoryOut = AttackNewOut(@),
                            !.factoryDefence = AttackNewDefence(@),
                            !.phase = "write", !.latch = 5,
                            !.pend = {"setTeam", "setLevel", "setIn", "setOut",
                                      "setDefence"}]]
    /\ UNCHANGED <<userTeam, factory, atkFrame>>

\* A transfer that keeps the level of the factory.
AtkWrittenKeepsLevel(a, write) ==
    CASE write = "setTeam" -> [factory EXCEPT !.team = a.userTeam]
      [] write = "setLevel" -> [factory EXCEPT !.level = a.factoryLevel]
      [] write = "setIn" -> [factory EXCEPT !.in = a.factoryIn]
      [] write = "setOut" -> [factory EXCEPT !.out = a.factoryOut]
      [] OTHER -> [factory EXCEPT !.defence = a.factoryDefence]

\* The value a write of the attack stores in a field of the factory model.
AtkWritten(a, write) ==
    CASE write = "setTeam" -> [factory EXCEPT !.team = a.userTeam]
      [] write = "setLevel" -> [factory EXCEPT !.level = a.factoryLevel - 1]
      [] write = "setIn" -> [factory EXCEPT !.in = a.factoryIn]
      [] write = "setOut" -> [factory EXCEPT !.out = a.factoryOut]
      [] OTHER -> [factory EXCEPT !.defence = a.factoryDefence]

\* The callbacks of factoryModel.setTeam, setLevel, setIn, setOut and
\* setDefence: a write that calls back without error has been stored.
AttackWriteCb(u) ==
    /\ \E write \in {"setTeam", "setLevel", "setIn", "setOut", "setDefence"},
          err \in BOOLEAN :
         /\ write \in atk[u].pend
         /\ atk' = [atk EXCEPT ![u] =
                      IF err THEN AtkError(AtkTake(u, write), "Error")
                      ELSE AtkLatchResolve(
                               [AtkTake(u, write) EXCEPT !.wrote = @ \cup {write}])]
         /\ factory' = IF err THEN factory ELSE AtkWritten(atk[u], write)
    /\ UNCHANGED <<userTeam, atkFrame>>

InitAttack ==
    /\ MemInit
    /\ userTeam = [u \in Users |-> Unknown]
    /\ userStrength = [u \in Users |-> Unknown]
    /\ userRecent = [u \in Users |-> FALSE]
    /\ factory \in [team : {NoTeam} \cup Teams, level : 1..MaxLevel,
                    in : Stocks, out : Stocks, defence : Defences,
                    deleted : {FALSE}, loaded : {TRUE}]
    /\ conq = ConqIdle
    /\ atk = AtkIdle
    /\ GameFixed
    /\ vis = VisIdle
    /\ SendFixed
    /\ MoreFixed

NextAttack ==
    \E u \in Users :
        \/ Attack(u)
        \/ AttackFactoryTeamCb(u)
        \/ AttackUserTeamCb(u)
        \/ AttackConquerCb(u)
        \/ AttackLevelCb(u)
        \/ AttackNameCb(u)
        \/ AttackDestroyCb(u)
        \/ AttackReadCb(u)
        \/ AttackConfigCb(u)
        \/ AttackWriteCb(u)

SpecAttack == InitAttack /\ [][NextAttack]_vars

\* The attack of u has been called.
AtkCalled(u) == atk[u].phase # "idle"

\* The team, level, in, out and defence of the factory are what they were
\* when the attack of u was called, and that attack wrote none of them and
\* did not destroy the factory.
AtkUntouched(u) ==
    /\ atk[u].wrote = {}
    /\ ~atk[u].destroyed
    /\ factory = atk[u].before

\* C2 as stated: when getConquer yields a value <= 0 the attack calls back
\* the error 'Conquer value must be above zero', and the factory's team,
\* level, in, out and defence are unchanged and the factory is not destroyed.
C2_AsStated ==
    \A u \in Users :
        (atk[u].gotConquer /\ atk[u].conquer <= 0) =>
            /\ atk[u].cbs = <<"Conquer value must be above zero">>
            /\ AtkUntouched(u)

\* C2, amended: when getConquer yields a value <= 0 the attack calls back
\* exactly one Error, which is 'Conquer value must be above zero' unless the
\* lookup of the factory's or of the user's team had already called back its
\* own error; the factory's team, level, in, out and defence are unchanged and
\* the factory is not destroyed.
C2_ConquerNotAboveZero ==
    \A u \in Users :
        (atk[u].gotConquer /\ atk[u].conquer <= 0) =>
            /\ Len(atk[u].cbs) = 1
            /\ atk[u].cbs[1] \in {"Conquer value must be above zero", "Error",
                                  "User doesn't have team"}
            /\ (atk[u].cbs[1] # "Conquer value must be above zero"
                    => atk[u].phase = "check" /\ atk[u].latch >= 2)
            /\ AtkUntouched(u)

\* An attack whose getConquer yielded zero has finished all its lookups and
\* called back the conquer error.
C2_Witness ==
    \E u \in Users :
        /\ atk[u].gotConquer /\ atk[u].conquer = 0
        /\ atk[u].pend = {}
        /\ atk[u].cbs = <<"Conquer value must be above zero">>
        /\ userTeam[u] \notin {NoTeam, Unknown, factory.team}

AtkAllWrites == {"setTeam", "setLevel", "setIn", "setOut", "setDefence"}

\* C3: an attack on a factory of level > 1 that calls back null has set the
\* team to the attacker's team, lowered the level by exactly one and replaced
\* in, out and defence by attackNewIn(in), attackNewOut(out) and
\* attackNewDefence(defence); null is called back only after all five writes.
C3_Capture ==
    \A u \in Users :
        (\E i \in 1..Len(atk[u].cbs) : atk[u].cbs[i] = "null") =>
            /\ atk[u].before.level > 1
            /\ atk[u].wrote = AtkAllWrites
            /\ atk[u].pend \cap AtkAllWrites = {}
            /\ factory.team = userTeam[u]
            /\ factory.team # NoTeam
            /\ factory.level = atk[u].before.level - 1
            /\ factory.in = AttackNewIn(atk[u].before.in)
            /\ factory.out = AttackNewOut(atk[u].before.out)
            /\ factory.defence = AttackNewDefence(atk[u].before.defence)

\* An attack has called back null after it changed every field of a factory
\* of another team.
C3_Witness ==
    \E u \in Users :
        /\ atk[u].cbs = <<"null">>
        /\ atk[u].before.team \notin {NoTeam, factory.team}
        /\ atk[u].before.in # factory.in
        /\ atk[u].before.out # factory.out
        /\ atk[u].before.defence # factory.defence

\* The attack of u passed the conquer and team checks and read the level.
AtkPassedChecks(u) ==
    atk[u].phase \in {"destroyNames", "destroy", "destroyed", "read", "config",
                      "write", "captured", "done"}

\* C4: an attack that passes the conquer and team checks on a factory of
\* level <= 1 takes the destroy branch: it never writes team, level, in, out
\* or defence, and once Factory.destroy has deleted the model the live factory
\* is unloaded from the factory manager.
C4_Destroy ==
    \A u \in Users :
        (AtkPassedChecks(u) /\ atk[u].before.level <= 1) =>
            /\ atk[u].phase \in {"destroyNames", "destroy", "destroyed"}
            /\ atk[u].wrote = {}
            /\ atk[u].pend \cap AtkAllWrites = {}
            /\ [factory EXCEPT !.deleted = FALSE, !.loaded = TRUE] = atk[u].before
            /\ atk[u].destroyed => (factory.deleted /\ ~factory.loaded)
            /\ (atk[u].phase # "destroyed") => (~factory.deleted /\ factory.loaded)

\* An attack has destroyed a factory of level one.
C4_Witness ==
    \E u \in Users :
        /\ atk[u].phase = "destroyed"
        /\ atk[u].destroyed
        /\ atk[u].before.level = 1
        /\ factory.deleted /\ ~factory.loaded

\* C5: every call of attack invokes its callback: once no lookup or write of
\* the call is outstanding, the callback has been invoked, with null when the
\* factory was captured or destroyed and with an Error otherwise.
C5_CallsBack ==
    \A u \in Users :
        (AtkCalled(u) /\ atk[u].pend = {}) =>
            /\ Len(atk[u].cbs) >= 1
            /\ (atk[u].cbs[1] = "null") <=>
                  (atk[u].destroyed \/ atk[u].wrote = AtkAllWrites)

\* The user of the attack of u has no team, or the team the factory had when
\* the attack was called.
AtkNoTeamOrAlly(u) ==
    \/ userTeam[u] = NoTeam
    \/ atk[u].before.team # NoTeam /\ userTeam[u] = atk[u].before.team

UserStates ==
    [known : {TRUE}, spectator : BOOLEAN, player : BOOLEAN, special : BOOLEAN]

\* A lookup of the state of a user returns s.
ReadUserState(u, s) ==
    /\ userState[u] \in {UnknownState, s}
    /\ userState' = [userState EXCEPT ![u] = s]

\* if(!calledBack) callback(err); calledBack = true;
VisError(v) ==
    [v EXCEPT !.cbs = IF v.calledBack THEN @
                      ELSE Append(@, [err |-> TRUE, result |-> VisResultObject]),
              !.calledBack = TRUE]

\* latch.resolve(), with the latch.then callback of the end of the method.
VisLatchResolve(v) ==
    IF v.latch - 1 = 0
    THEN [v EXCEPT !.latch = 0,
                   !.cbs = Append(@, [err |-> FALSE, result |-> v.resultObject])]
    ELSE [v EXCEPT !.latch = @ - 1]

VisTeamsEqualOrBothNull(fTeam, uTeam) == fTeam = uTeam

\* The teams equal and aren't null.
VisTeamsEqual(fTeam, uTeam) ==
    fTeam # NoTeam /\ uTeam # NoTeam /\ fTeam = uTeam

\* The callback given to allyLatch.then.
VisAllyThen(v) ==
    IF ~v.userState.player
    THEN VisLatchResolve(v)
    ELSE VisLatchResolve(
            IF VisTeamsEqual(v.factoryTeam, v.userTeam)
            THEN [v EXCEPT !.resultObject.ally = TRUE,
                           !.resultObject.visible = TRUE]
            ELSE v)

\* allyLatch.resolve()
VisAllyLatchResolve(v) ==
    IF v.allyLatch - 1 = 0 /\ v.allyThen
    THEN VisAllyThen([v EXCEPT !.allyLatch = 0])
    ELSE [v EXCEPT !.allyLatch = @ - 1]

VisTake(lookup) == [vis EXCEPT !.pend = @ \ {lookup}]

GetVisibilityState(liveUser) ==
    /\ vis.phase = "idle"
    /\ vis' = IF liveUser = NullUser
              THEN [vis EXCEPT !.phase = "called",
                               !.cbs = <<[err |-> FALSE,
                                          result |-> VisResultObject]>>]
              ELSE [vis EXCEPT !.phase = "called", !.user = liveUser,
                               !.allyLatch = 2, !.latch = 2,
                               !.pend = {"getTeam", "getGameUser", "getStage"}]
    /\ UNCHANGED <<userTeam, userState, visFrame>>

\* The callback of this.getTeam.
VisFactoryTeamCb ==
    /\ "getTeam" \in vis.pend
    /\ \E err \in BOOLEAN :
         vis' = IF err THEN VisError(VisTake("getTeam"))
                ELSE VisAllyLatchResolve(
                        [VisTake("getTeam") EXCEPT !.factoryTeam = factory.team])
    /\ UNCHANGED <<userTeam, userState, visFrame>>

\* The callback of getGameUser; a user without a game user has no team.
VisGameUserCb ==
    /\ "getGameUser" \in vis.pend
    /\ \/ /\ vis' = VisError(VisTake("getGameUser"))
          /\ UNCHANGED userTeam
       \/ /\ ReadUserTeam(vis.user, NoTeam)
          /\ vis' = VisAllyLatchResolve(VisLatchResolve(VisTake("getGameUser")))
       \/ /\ vis' = VisLatchResolve(
                       [VisTake("getGameUser") EXCEPT
                           !.pend = @ \cup {"getUserTeam"}])
          /\ UNCHANGED userTeam
    /\ UNCHANGED <<userState, visFrame>>

\* The callback of gameUser.getTeam.
VisUserTeamCb ==
    /\ "getUserTeam" \in vis.pend
    /\ \/ /\ vis' = VisError(VisTake("getUserTeam"))
          /\ UNCHANGED userTeam
       \/ \E t \in Teams \cup {NoTeam} :
            /\ ReadUserTeam(vis.user, t)
            /\ vis' = VisAllyLatchResolve(
                         [VisTake("getUserTeam") EXCEPT !.userTeam = t])
    /\ UNCHANGED <<userState, visFrame>>

\* The callback of gameModel.getStage.
VisStageCb ==
    /\ "getStage" \in vis.pend
    /\ \E err \in BOOLEAN :
         vis' = IF err THEN VisError(VisTake("getStage"))
                ELSE [VisTake("getStage") EXCEPT
                         !.gameStage = gameStage,
                         !.pend = @ \cup {"getUserState"}]
    /\ UNCHANGED <<userTeam, userState, visFrame>>

VisPinged(liveUser) == IsInPingMemory(liveUser)

\* The user is a spectator or the game is finished.
VisSeesAll(v) ==
    IF v.userState.spectator \/ v.gameStage >= StageFinished
    THEN [v EXCEPT !.resultObject.visible = TRUE,
                   !.resultObject.inRange = FALSE]
    ELSE v

VisSeesPinged(v) ==
    IF VisPinged(v.user)
    THEN [v EXCEPT !.resultObject.visible = TRUE,
                   !.resultObject.pinged = TRUE]
    ELSE v

\* latch.add(); allyLatch.then(...): the ally check runs at once when the
\* ally latch is resolved already.
VisAllyCheck(v) ==
    IF v.allyLatch = 0
    THEN VisAllyThen([v EXCEPT !.latch = @ + 1])
    ELSE [v EXCEPT !.latch = @ + 1, !.allyThen = TRUE]

VisChecksRange(v) ==
    /\ v.userState.player \/ v.userState.special
    /\ userRecent[v.user]
    /\ v.gameStage < StageFinished

VisRangeCheck(v) ==
    IF VisChecksRange(v)
    THEN [v EXCEPT !.latch = @ + 1, !.rangeRun = TRUE,
                   !.pend = @ \cup {"isUserInRange"}]
    ELSE v

\* The callback of gameModel.getUserState.
VisUserStateCb ==
    /\ "getUserState" \in vis.pend
    /\ \/ /\ vis' = VisError(VisTake("getUserState"))
          /\ UNCHANGED userState
       \/ \E s \in UserStates :
            /\ ReadUserState(vis.user, s)
            /\ vis' = VisLatchResolve(VisRangeCheck(VisAllyCheck(VisSeesPinged(
                         VisSeesAll([VisTake("getUserState") EXCEPT
                                        !.userState = s])))))
    /\ UNCHANGED <<userTeam, visFrame>>

\* The callback of self.isUserInRange.
VisInRangeCb ==
    /\ "isUserInRange" \in vis.pend
    /\ \E err, result \in BOOLEAN :
         vis' = IF err THEN VisError(VisTake("isUserInRange"))
                ELSE VisLatchResolve(
                        [VisTake("isUserInRange") EXCEPT
                            !.rangeResult = result,
                            !.resultObject.inRange = result,
                            !.resultObject.visible = @ \/ result])
    /\ UNCHANGED <<userTeam, userState, visFrame>>

InitVis ==
    /\ userVisibleMem = <<>>
    /\ userRangeMem = <<>>
    /\ userPingMem \in AscendingMemories
    /\ shopRangeMem = <<>>
    /\ memRet = FALSE
    /\ userTeam = [u \in Users |-> Unknown]
    /\ userStrength = [u \in Users |-> Unknown]
    /\ userRecent \in [Users -> BOOLEAN]
    /\ \E t \in Teams \cup {NoTeam} :
         factory = [team |-> t, level |-> 1, in |-> 0, out |-> 0,
                    defence |-> 0, deleted |-> FALSE, loaded |-> TRUE]
    /\ conq = ConqIdle
    /\ atk = AtkIdle
    /\ gameStage \in GameStages
    /\ userState = [u \in Users |-> UnknownState]
    /\ vis = VisIdle
    /\ SendFixed
    /\ MoreFixed

NextVis ==
    \/ \E liveUser \in Users \cup {NullUser} : GetVisibilityState(liveUser)
    \/ VisFactoryTeamCb
    \/ VisGameUserCb
    \/ VisUserTeamCb
    \/ VisStageCb
    \/ VisUserStateCb
    \/ VisInRangeCb

SpecVis == InitVis /\ [][NextVis]_vars

\* The user's team as the ally check knows it.
VisUserTeam == IF userTeam[vis.user] = Unknown THEN NoTeam ELSE userTeam[vis.user]

\* C8: for a non-null user, every result getVisibilityState calls back has
\* visible = true exactly when the user is a spectator, or the game stage is
\* at least 2, or the user is in the ping memory, or the user is a player
\* whose non-null team equals the factory's non-null team, or the in-range
\* check found the user in range; the in-range check runs exactly for a
\* player or special user with a recent location while the stage is below 2.
C8_Visible ==
    \A i \in 1..Len(vis.cbs) :
        (vis.user # NullUser /\ ~vis.cbs[i].err) =>
            /\ userState[vis.user].known
            /\ vis.rangeRun <=>
                 /\ userState[vis.user].player \/ userState[vis.user].special
                 /\ userRecent[vis.user]
                 /\ gameStage < 2
            /\ vis.cbs[i].result.visible <=>
                 \/ userState[vis.user].spectator
                 \/ gameStage >= 2
                 \/ IsInPingMemory(vis.user)
                 \/ /\ userState[vis.user].player
                    /\ factory.team # NoTeam
                    /\ VisUserTeam # NoTeam
                    /\ factory.team = VisUserTeam
                 \/ vis.rangeRun /\ vis.rangeResult

\* The factory is visible to a player of its team, and to nobody else for
\* another reason.
C8_Witness ==
    /\ vis.user # NullUser
    /\ Len(vis.cbs) = 1
    /\ ~vis.cbs[1].err
    /\ vis.cbs[1].result.visible
    /\ vis.cbs[1].result.ally
    /\ ~userState[vis.user].spectator
    /\ gameStage < 2
    /\ ~IsInPingMemory(vis.user)
    /\ vis.rangeRun /\ ~vis.rangeResult

(***************************************************************************)
(* Factory.sendData.                                                       *)
(*                                                                         *)
(* The call runs on two factories at once, which have the same id, game,   *)
(* visibility and permission for the user and whose lookups fail together: *)
(* send.factoryData[w] and send.packets[w] are the data object and the     *)
(* FACTORY_DATA packets of factory w.  A packet is recorded once, whichever*)
(* sockets it is sent to.                                                  *)
(***************************************************************************)
FactoryIdHex == "factory"
GameIdHex == "game"

\* factoryData.field = value
SetField(data, field, value) == (field :> value) @@ data

\* if(!calledBack) callback(err); calledBack = true;
SendError(s) ==
    [s EXCEPT !.cbs = IF s.calledBack THEN @ ELSE Append(@, "error"),
              !.calledBack = TRUE,
              !.failures = @ + 1]

\* A lookup of sendData may fail while the call has failures to spare.
SendMayFail == send.failures < MaxFailures

\* sendFactoryData()
SendFactoryData(s) ==
    [s EXCEPT !.packets =
                  [w \in Worlds |->
                      Append(s.packets[w],
                             [factory |-> FactoryIdHex, game |-> GameIdHex,
                              data |-> s.factoryData[w]])],
              !.cbs = Append(@, "null"),
              !.phase = "sent"]

SendIsInvisibleNever(data) == FALSE

\* if(!factoryData.visible)
SendIsInvisible(data) == ~data["visible"]

\* The hidden fields each lookup of the second round stores.
SendLookupFields ==
    [getName |-> {"name"}, getLevel |-> {"level"}, getDefence |-> {"defence"},
     getConquer |-> {"conquerValue", "conquerUserCount"},
     getIn |-> {"in"}, getOut |-> {"out"},
     getDisplayName |-> {"creatorName"}, getTeamName |-> {"teamName"},
     getProductionIn |-> {"productionIn"},
     getProductionOut |-> {"productionOut"},
     getDefenceUpgrades |-> {"defenceUpgrades"},
     getNextLevelCost |-> {"nextLevelCost"},
     getVisibilityState |-> {"inRange", "ally"}]

\* The lookups started after latch.identity().
SendSecondRound ==
    {"getName", "getLevel", "getDefence", "getConquer", "getIn", "getOut",
     "getCreator", "getProductionIn", "getProductionOut",
     "getDefenceUpgrades", "getNextLevelCost", "getLiveUser"}

\* The callbacks given to latch.then.
SendThen(s) ==
    CASE s.phase = "check" ->
            IF SendIsInvisible(s.factoryData[1])
            THEN SendFactoryData(s)
            ELSE [s EXCEPT !.phase = "game", !.pend = {"getGame"}]
      [] s.phase = "gather" -> SendFactoryData(s)
      [] OTHER -> s

\* latch.resolve()
SendLatchResolve(s) ==
    IF s.latch - 1 = 0 THEN SendThen([s EXCEPT !.latch = 0])
    ELSE [s EXCEPT !.latch = @ - 1]

SendTake(lookup) == [send EXCEPT !.pend = @ \ {lookup}]

\* The lookup stores what it found of each factory.
SendStore(s, lookup) ==
    [s EXCEPT !.factoryData =
        [w \in Worlds |->
            [f \in DOMAIN s.factoryData[w] \cup SendLookupFields[lookup] |->
                IF f \in SendLookupFields[lookup] THEN hidden[w][f]
                ELSE s.factoryData[w][f]]]]

SendData(user) ==
    /\ send.phase = "idle"
    /\ send' = [send EXCEPT !.phase = "check", !.latch = 2,
                            !.pend = {"getUser", "hasManagePermission"}]
    /\ UNCHANGED sendFrame

\* The callback of liveGame.getUser.
SendUserCb ==
    /\ "getUser" \in send.pend
    /\ \/ SendMayFail /\ send' = SendError(SendTake("getUser"))
       \/ send' = [SendTake("getUser") EXCEPT !.pend = @ \cup {"isVisibleFor"}]
    /\ UNCHANGED sendFrame

\* The callback of self.isVisibleFor.
SendVisibleCb ==
    /\ "isVisibleFor" \in send.pend
    /\ \/ SendMayFail /\ send' = SendError(SendTake("isVisibleFor"))
       \/ \E visible \in BOOLEAN :
            send' = SendLatchResolve(
                       [SendTake("isVisibleFor") EXCEPT
                           !.factoryData =
                               [w \in Worlds |->
                                   SetField(@[w], "visible", visible)]])
    /\ UNCHANGED sendFrame

\* The callback of game.hasManagePermission.
SendManageCb ==
    /\ "hasManagePermission" \in send.pend
    /\ \/ SendMayFail /\ send' = SendError(SendTake("hasManagePermission"))
       \/ \E canManage \in BOOLEAN :
            send' = SendLatchResolve(
                       [SendTake("hasManagePermission") EXCEPT
                           !.factoryData =
                               [w \in Worlds |->
                                   SetField(@[w], "canManage", canManage)]])
    /\ UNCHANGED sendFrame

\* The callback of factoryModel.getGame.
SendGameCb ==
    /\ "getGame" \in send.pend
    /\ \/ SendMayFail /\ send' = SendError(SendTake("getGame"))
       \/ \E partOfGame \in BOOLEAN :
            send' = IF ~partOfGame
                    THEN [SendTake("getGame") EXCEPT
                             !.cbs = IF send.calledBack THEN @
                                     ELSE Append(@, "error"),
                             !.calledBack = TRUE]
                    ELSE [SendTake("getGame") EXCEPT
                             !.pend = {"getLiveFactory"}]
    /\ UNCHANGED sendFrame

\* The callback of factoryModel.getLiveFactory.
SendLiveFactoryCb ==
    /\ "getLiveFactory" \in send.pend
    /\ \/ SendMayFail /\ send' = SendError(SendTake("getLiveFactory"))
       \/ send' = [SendTake("getLiveFactory") EXCEPT
                      !.phase = "gather",
                      !.latch = Cardinality(SendSecondRound),
                      !.pend = SendSecondRound]
    /\ UNCHANGED sendFrame

\* The callback of a lookup that stores its result and resolves the latch.
SendFieldCb(lookup) ==
    /\ lookup \in send.pend
    /\ \/ SendMayFail /\ send' = SendError(SendTake(lookup))
       \/ send' = SendLatchResolve(SendStore(SendTake(lookup), lookup))
    /\ UNCHANGED sendFrame

\* The callback of factoryModel.getUser.
SendCreatorCb ==
    /\ "getCreator" \in send.pend
    /\ \/ SendMayFail /\ send' = SendError(SendTake("getCreator"))
       \/ send' = SendLatchResolve(
                     [SendTake("getCreator") EXCEPT
                         !.latch = @ + 2,
                         !.pend = @ \cup {"getDisplayName", "getTeam"}])
    /\ UNCHANGED sendFrame

\* The callback of factoryModel.getTeam.
SendTeamCb ==
    /\ "getTeam" \in send.pend
    /\ \/ SendMayFail /\ send' = SendError(SendTake("getTeam"))
       \/ send' = [SendTake("getTeam") EXCEPT !.pend = @ \cup {"getTeamName"}]
    /\ UNCHANGED sendFrame

\* The callback of self.getGame().getUser.
SendLiveUserCb ==
    /\ "getLiveUser" \in send.pend
    /\ \/ SendMayFail /\ send' = SendError(SendTake("getLiveUser"))
       \/ send' = [SendTake("getLiveUser") EXCEPT
                      !.pend = @ \cup {"getVisibilityState"}]
    /\ UNCHANGED sendFrame

InitSend ==
    /\ MemInit
    /\ EnvFixed
    /\ FactoryFixed
    /\ conq = ConqIdle
    /\ atk = AtkIdle
    /\ GameFixed
    /\ vis = VisIdle
    /\ SendFixed
    /\ MoreFixed

NextSend ==
    \/ \E user \in Users : SendData(user)
    \/ SendUserCb
    \/ SendVisibleCb
    \/ SendManageCb
    \/ SendGameCb
    \/ SendLiveFactoryCb
    \/ \E lookup \in DOMAIN SendLookupFields : SendFieldCb(lookup)
    \/ SendCreatorCb
    \/ SendTeamCb
    \/ SendLiveUserCb

SpecSend == InitSend /\ [][NextSend]_vars

\* C9: a FACTORY_DATA packet sendData sends for a user the factory is not
\* visible for carries in its data the flags visible (false) and canManage
\* and nothing else, and the packets of two factories that differ in the
\* hidden fields only are the same.
C9_InvisiblePacket ==
    \A w \in Worlds : \A i \in 1..Len(send.packets[w]) :
        ~send.packets[w][i].data["visible"] =>
            /\ DOMAIN send.packets[w][i].data = {"visible", "canManage"}
            /\ send.packets[1][i] = send.packets[2][i]

\* The packet was sent, and the callback called with null, for a user who
\* does not see either of two factories that differ in every hidden field.
C9_Witness ==
    /\ send.cbs = <<"null">>
    /\ \A w \in Worlds :
         /\ Len(send.packets[w]) = 1
         /\ ~send.packets[w][1].data["visible"]
         /\ send.packets[w][1].data["canManage"]
    /\ hidden[1].level # hidden[2].level
    /\ hidden[1].ally # hidden[2].ally

(***************************************************************************)
(* Factory.pingFor.                                                        *)
(*                                                                         *)
(* pings[i] is the i-th call of pingFor: its user and duration, whether a   *)
(* callback was given, what became of it ("invalid": refused, "timer": the timeout is   *)
(* pending, "decayed": the timeout has run, "threw": the call or its       *)
(* timeout ended in an exception) and the invocations of its callback.     *)
(***************************************************************************)
PingDurations == {0, MaxDuration}

\* liveUser === null && pingDuration <= 0
PingInvalid(liveUser, pingDuration) ==
    liveUser = NullUser /\ pingDuration <= 0

\* setInPingMemory broadcasts the location data of liveUser.getGame() when
\* the state changed and sendLocationUpdate is undefined or true, which
\* throws for a null user.
PingBroadcastThrows(liveUser, isPinged, sendLocationUpdate) ==
    /\ SetMemory(userPingMem, liveUser, isPinged).ret
    /\ sendLocationUpdate
    /\ liveUser = NullUser

PingDecayedSilent(p) == [p EXCEPT !.phase = "decayed"]

\* if(_.isFunction(callback)) callback(null);
PingDecayed(p) ==
    [p EXCEPT !.phase = "decayed",
              !.cbs = IF p.callback THEN Append(@, "null") ELSE @]

PingFor(liveUser, pingDuration, sendLocationUpdate, callback) ==
    /\ Len(pings) < MaxPings
    /\ IF PingInvalid(liveUser, pingDuration)
       THEN /\ pings' = Append(pings,
                           [user |-> liveUser, duration |-> pingDuration,
                            callback |-> callback, phase |-> "invalid",
                            cbs |-> IF callback THEN <<"error">> ELSE <<>>])
            /\ UNCHANGED memVars
       ELSE /\ SetInPingMemory(liveUser, TRUE)
            /\ pings' = Append(pings,
                           [user |-> liveUser, duration |-> pingDuration,
                            callback |-> callback,
                            phase |-> IF PingBroadcastThrows(
                                            liveUser, TRUE, sendLocationUpdate)
                                      THEN "threw" ELSE "timer",
                            cbs |-> <<>>])
    /\ UNCHANGED pingFrame

\* The function given to setTimeout.
PingTimeout(i) ==
    /\ pings[i].phase = "timer"
    /\ SetInPingMemory(pings[i].user, FALSE)
    /\ pings' = [pings EXCEPT
                    ![i] = IF PingBroadcastThrows(pings[i].user, FALSE, TRUE)
                           THEN [@ EXCEPT !.phase = "threw"]
                           ELSE PingDecayed(@)]
    /\ UNCHANGED pingFrame

InitPing ==
    /\ MemInit
    /\ EnvFixed
    /\ FactoryFixed
    /\ conq = ConqIdle
    /\ atk = AtkIdle
    /\ GameFixed
    /\ vis = VisIdle
    /\ SendFixed
    /\ MoreFixed

NextPing ==
    \/ \E liveUser \in Users \cup {NullUser}, pingDuration \in PingDurations,
          sendLocationUpdate \in BOOLEAN, callback \in BOOLEAN :
         PingFor(liveUser, pingDuration, sendLocationUpdate, callback)
    \/ \E i \in 1..Len(pings) : PingTimeout(i)

SpecPing == InitPing /\ [][NextPing]_vars

\* What the ping check of getVisibilityState makes of the result object.
PingChecked(u) == VisSeesPinged([VisIdle EXCEPT !.user = u]).resultObject

\* pingFor was called for a user, with a callback, in this step.
PingCalled ==
    /\ Len(pings') = Len(pings) + 1
    /\ pings'[Len(pings')].user # NullUser
    /\ pings'[Len(pings')].callback

\* The timer of call i, made for a user with a callback, fires in this step.
PingFires(i) ==
    /\ pings[i].phase = "timer"
    /\ pings'[i].phase # "timer"
    /\ pings[i].user # NullUser
    /\ pings[i].callback

\* C10: pingFor(user, duration) leaves the user in the ping memory and has
\* not called back; a user in the ping memory is visible and pinged for the
\* ping check of getVisibilityState; the step of the ping timer leaves the
\* user out of the ping memory and the callback called with null, once, and
\* the callback is called at no other time.
C10_Ping ==
    /\ [][PingCalled =>
            /\ IndexOf(userPingMem', pings'[Len(pings')].user) >= 0
            /\ pings'[Len(pings')].cbs = <<>>]_vars
    /\ [][\A i \in 1..Len(pings) :
            PingFires(i) =>
                /\ IndexOf(userPingMem', pings[i].user) < 0
                /\ pings[i].cbs = <<>>
                /\ pings'[i].cbs = <<"null">>]_vars
    /\ [](\A u \in Users :
            IsInPingMemory(u) => PingChecked(u).visible /\ PingChecked(u).pinged)
    /\ [](\A i \in 1..Len(pings) :
            (pings[i].user # NullUser /\ pings[i].callback) =>
                pings[i].cbs = IF pings[i].phase = "decayed"
                               THEN <<"null">> ELSE <<>>)

\* One ping has decayed and called back while another user is still pinged.
C10_Witness ==
    \E i, j \in 1..Len(pings) :
        /\ pings[i].user # NullUser
        /\ pings[i].phase = "decayed"
        /\ pings[i].cbs = <<"null">>
        /\ ~IsInPingMemory(pings[i].user)
        /\ pings[j].user \notin {NullUser, pings[i].user}
        /\ pings[j].phase = "timer"
        /\ IsInPingMemory(pings[j].user)
        /\ PingChecked(pings[j].user).pinged

\* The arguments of call i are not a user and a positive duration.
PingBadArguments(i) == pings[i].user = NullUser \/ pings[i].duration <= 0

\* C11: a pingFor call with a null user or a duration <= 0 calls back an
\* Error and starts no timer, and calls with such arguments leave the ping
\* memory as it was.
C11_Validates ==
    /\ \A i \in 1..Len(pings) :
          PingBadArguments(i) =>
              /\ pings[i].phase = "invalid"
              /\ pings[i].callback => pings[i].cbs = <<"error">>
    /\ (\A i \in 1..Len(pings) : PingBadArguments(i)) => userPingMem = <<>>

(***************************************************************************)
(* Factory.tick.                                                           *)
(*                                                                         *)
(* tick[i] is the i-th call tick(callback): pend holds its lookups and     *)
(* writes that have not called back yet, wrote the writes that succeeded,  *)
(* broadcasts counts its calls of broadcastData, before is the factory at  *)
(* the call.  A write takes effect when it completes.                      *)
(***************************************************************************)
\* gameConfig.factory.getProductionIn(level) and getProductionOut(level).
ProductionIn(level) == level

ProductionOut(level) == level + 1

\* if(!calledBack) callback(err); calledBack = true;
TickError(t) ==
    [t EXCEPT !.cbs = IF t.calledBack THEN @ ELSE Append(@, "error"),
              !.calledBack = TRUE]

TickNotEnoughOrEqual(valueIn, productionIn) == valueIn <= productionIn

\* valueIn < productionIn
TickNotEnough(valueIn, productionIn) == valueIn < productionIn

\* The callbacks given to latch.then.
TickThen(t) ==
    CASE t.phase = "lookups" ->
            IF TickNotEnough(t.valueIn, t.productionIn)
            THEN [t EXCEPT !.phase = "notEnough", !.cbs = Append(@, "null")]
            ELSE [t EXCEPT !.phase = "writes", !.latch = 2,
                           !.pend = {"subtractIn", "addOut"}]
      [] t.phase = "writes" ->
            [t EXCEPT !.phase = "broadcast", !.broadcasts = @ + 1,
                      !.pend = {"broadcastData"}]
      [] OTHER -> t

\* latch.resolve()
TickLatchResolve(t) ==
    IF t.latch - 1 = 0 THEN TickThen([t EXCEPT !.latch = 0])
    ELSE [t EXCEPT !.latch = @ - 1]

TickTake(i, lookup) == [tick[i] EXCEPT !.pend = @ \ {lookup}]

TickNoneStarted == \A i \in Ticks : tick[i].phase = "idle"

Tick(i) ==
    /\ TickNoneStarted
    /\ factory.loaded
    /\ tick' = [tick EXCEPT ![i] =
                   [@ EXCEPT !.phase = "lookups", !.latch = 3,
                             !.pend = {"getProductionIn", "getProductionOut",
                                       "getIn"},
                             !.before = factory]]
    /\ UNCHANGED <<factory, tickFrame>>

\* The callback of this.getProductionIn.
TickProductionInCb(i) ==
    /\ "getProductionIn" \in tick[i].pend
    /\ \E err \in BOOLEAN :
         tick' = [tick EXCEPT ![i] =
                     IF err THEN TickError(TickTake(i, "getProductionIn"))
                     ELSE TickLatchResolve(
                             [TickTake(i, "getProductionIn") EXCEPT
                                 !.productionIn = ProductionIn(factory.level)])]
    /\ UNCHANGED <<factory, tickFrame>>

\* The callback of this.getProductionOut.
TickProductionOutCb(i) ==
    /\ "getProductionOut" \in tick[i].pend
    /\ \E err \in BOOLEAN :
         tick' = [tick EXCEPT ![i] =
                     IF err THEN TickError(TickTake(i, "getProductionOut"))
                     ELSE TickLatchResolve(
                             [TickTake(i, "getProductionOut") EXCEPT
                                 !.productionOut =
                                     ProductionOut(factory.level)])]
    /\ UNCHANGED <<factory, tickFrame>>

\* The callback of getFactoryModel().getIn, read with noCache.
TickInCb(i) ==
    /\ "getIn" \in tick[i].pend
    /\ \E err \in BOOLEAN :
         tick' = [tick EXCEPT ![i] =
                     IF err THEN TickError(TickTake(i, "getIn"))
                     ELSE TickLatchResolve(
                             [TickTake(i, "getIn") EXCEPT
                                 !.valueIn = factory.in])]
    /\ UNCHANGED <<factory, tickFrame>>

\* The callback of getFactoryModel().subtractIn.
TickSubtractInCb(i) ==
    /\ "subtractIn" \in tick[i].pend
    /\ \E err \in BOOLEAN :
         IF err
         THEN /\ tick' = [tick EXCEPT ![i] =
                             TickError(TickTake(i, "subtractIn"))]
              /\ UNCHANGED factory
         ELSE /\ factory' = [factory EXCEPT !.in = @ - tick[i].productionIn]
              /\ tick' = [tick EXCEPT ![i] =
                             TickLatchResolve(
                                 [TickTake(i, "subtractIn") EXCEPT
                                     !.wrote = @ \cup {"subtractIn"}])]
    /\ UNCHANGED tickFrame

\* The callback of getFactoryModel().addOut.
TickAddOutCb(i) ==
    /\ "addOut" \in tick[i].pend
    /\ \E err \in BOOLEAN :
         IF err
         THEN /\ tick' = [tick EXCEPT ![i] = TickError(TickTake(i, "addOut"))]
              /\ UNCHANGED factory
         ELSE /\ factory' = [factory EXCEPT !.out = @ + tick[i].productionOut]
              /\ tick' = [tick EXCEPT ![i] =
                             TickLatchResolve(
                                 [TickTake(i, "addOut") EXCEPT
                                     !.wrote = @ \cup {"addOut"}])]
    /\ UNCHANGED tickFrame

\* broadcastData calls the callback of the tick, with an error or with null.
TickBroadcastCb(i) ==
    /\ "broadcastData" \in tick[i].pend
    /\ \E err \in BOOLEAN :
         tick' = [tick EXCEPT ![i] =
                     [TickTake(i, "broadcastData") EXCEPT
                         !.phase = "done",
                         !.cbs = Append(@, IF err THEN "error" ELSE "null")]]
    /\ UNCHANGED <<factory, tickFrame>>

InitTick ==
    /\ MemInit
    /\ EnvFixed
    /\ \E l \in 1..MaxLevel, i \in Stocks, o \in Stocks :
         factory = [team |-> NoTeam, level |-> l, in |-> i, out |-> o,
                    defence |-> 0, deleted |-> FALSE, loaded |-> TRUE]
    /\ conq = ConqIdle
    /\ atk = AtkIdle
    /\ GameFixed
    /\ vis = VisIdle
    /\ hidden = [w \in Worlds |-> Hidden(w)]
    /\ send = SendIdle
    /\ pings = <<>>
    /\ tick = TickIdle
    /\ BuyFixed
    /\ LateFixed

NextTick ==
    \E i \in Ticks :
        \/ Tick(i)
        \/ TickProductionInCb(i)
        \/ TickProductionOutCb(i)
        \/ TickInCb(i)
        \/ TickSubtractInCb(i)
        \/ TickAddOutCb(i)
        \/ TickBroadcastCb(i)

SpecTick == InitTick /\ [][NextTick]_vars

\* The in stock at the call of tick i is below the production of a tick.
TickShort(i) == tick[i].before.in < ProductionIn(tick[i].before.level)

\* C12: a tick that finds the in stock below productionIn(level) leaves in
\* and out as they were, starts no broadcast and calls back null when its
\* lookups succeeded; another tick starts the broadcast only when both
\* writes have completed, with productionIn(level) taken from in and
\* productionOut(level) added to out, and has produced when it calls back
\* null.
C12_Tick ==
    \A i \in Ticks :
        tick[i].phase # "idle" =>
            IF TickShort(i)
            THEN /\ factory.in = tick[i].before.in
                 /\ factory.out = tick[i].before.out
                 /\ tick[i].broadcasts = 0
                 /\ tick[i].wrote = {}
                 /\ (tick[i].pend = {} /\ ~tick[i].calledBack) =>
                        tick[i].cbs = <<"null">>
            ELSE /\ "subtractIn" \in tick[i].wrote <=>
                        factory.in = tick[i].before.in
                                        - ProductionIn(tick[i].before.level)
                 /\ "subtractIn" \notin tick[i].wrote =>
                        factory.in = tick[i].before.in
                 /\ factory.out = tick[i].before.out +
                        (IF "addOut" \in tick[i].wrote
                         THEN ProductionOut(tick[i].before.level) ELSE 0)
                 /\ (tick[i].broadcasts > 0 \/ "null" \in Range(tick[i].cbs)) =>
                        tick[i].wrote = {"subtractIn", "addOut"}
                 /\ tick[i].broadcasts <= 1

\* A tick on a factory with enough in stock has produced, broadcast and
\* called back null.
C12_Witness ==
    \E i \in Ticks :
        /\ tick[i].cbs = <<"null">>
        /\ tick[i].broadcasts = 1
        /\ ~TickShort(i)
        /\ factory.in < tick[i].before.in
        /\ factory.out > tick[i].before.out

(***************************************************************************)
(* ShopBuyOutHandler.handler.                                              *)
(*                                                                         *)
(* A packet has a shop token (NoShop: no shop property), may have an       *)
(* amount property and an all property, and has the raw outAmount the      *)
(* handler reads, in halves of a unit (NaN: undefined or no number).       *)
(* Prices are in halves of a unit of money.  buy.replies are the messages  *)
(* sent to the socket, buy.before the balances when the request arrived.   *)
(***************************************************************************)
RawAmounts == {NaN} \cup (-2 .. 2 * (MaxStock + 1))

Prices == 1..MaxPrice

Packets ==
    [shop : ShopIds \cup {NoShop}, amountGiven : BOOLEAN,
     all : {"absent", "true", "other"}, outAmount : RawAmounts]

\* parseInt: the integer part of a number, NaN for anything else.
ParseInt(raw) ==
    IF raw = NaN THEN NaN
    ELSE IF raw < 0 THEN -((-raw) \div 2) ELSE raw \div 2

\* Comparisons and arithmetic of JavaScript numbers.
JsGreater(a, b) == a # NaN /\ b # NaN /\ a > b

JsLess(a, b) == a # NaN /\ b # NaN /\ a < b

JsSubtract(a, b) == IF a = NaN \/ b = NaN THEN NaN ELSE a - b

JsAdd(a, b) == IF a = NaN \/ b = NaN THEN NaN ELSE a + b

MathFloorHalves(halves) == IF halves = NaN THEN NaN ELSE halves \div 2

\* Math.round of a number given in halves: the nearest integer, halves up.
MathRoundHalves(halves) == IF halves = NaN THEN NaN ELSE (halves + 1) \div 2

\* Math.round(outAmount * price)
BuyIncome(outAmount, price) ==
    MathRoundHalves(IF outAmount = NaN THEN NaN ELSE outAmount * price)

\* callbackError
BuyCallbackError(b) ==
    [b EXCEPT !.replies = IF b.calledBack THEN @ ELSE Append(@, "serverError"),
              !.calledBack = TRUE,
              !.phase = "failed"]

\* sendPacket(PacketType.MESSAGE_RESPONSE, ...) of a refusal
BuyRefuse(b, message) ==
    [b EXCEPT !.replies = Append(@, message), !.phase = "refused"]

BuyMalformed(packet) ==
    packet.shop = NoShop \/ (~packet.amountGiven /\ packet.all = "absent")

BuyTake(lookup) == [buy EXCEPT !.pend = @ \ {lookup}]

\* The handler up to the first lookup.
BuyOutHandler(packet, sessionValid) ==
    /\ buy.phase = "idle"
    /\ LET b == [buy EXCEPT !.packet = packet, !.before = balance,
                            !.sessionValid = sessionValid]
       IN  buy' = IF BuyMalformed(packet) THEN BuyCallbackError(b)
                  ELSE IF ~sessionValid THEN BuyRefuse(b, "notAuthenticated")
                  ELSE IF IndexOf(shops, packet.shop) >= 0
                  THEN [b EXCEPT !.phase = "lookups", !.shop = packet.shop,
                                 !.pend = {"getGameUser"}]
                  ELSE BuyRefuse(b, "notFound")
    /\ UNCHANGED <<balance, buyFrame>>

\* The callback of getGameUser.
BuyGameUserCb ==
    /\ "getGameUser" \in buy.pend
    /\ \E err \in BOOLEAN :
         buy' = IF err THEN BuyCallbackError(BuyTake("getGameUser"))
                ELSE [BuyTake("getGameUser") EXCEPT !.pend = {"getUser"}]
    /\ UNCHANGED <<balance, buyFrame>>

\* The callback of liveGame.getUser.
BuyLiveUserCb ==
    /\ "getUser" \in buy.pend
    /\ \E err \in BOOLEAN, liveUser \in Users \cup {NullUser} :
         buy' = IF err \/ liveUser = NullUser
                THEN BuyCallbackError(
                        [BuyTake("getUser") EXCEPT !.liveUser = liveUser])
                ELSE [BuyTake("getUser") EXCEPT !.liveUser = liveUser,
                                                !.pend = {"isUserInRange"}]
    /\ UNCHANGED <<balance, buyFrame>>

\* The callback of liveShop.isUserInRange.  Shop.isUserInRange reads the
\* undeclared name self after its range lookup, so it may throw instead.
BuyInRangeCb ==
    /\ "isUserInRange" \in buy.pend
    /\ \/ buy' = [BuyTake("isUserInRange") EXCEPT !.phase = "threw"]
       \/ \E err \in BOOLEAN, inRange \in BOOLEAN :
            buy' = IF err \/ ~inRange
                   THEN BuyCallbackError(
                           [BuyTake("isUserInRange") EXCEPT
                               !.inRange = IF inRange THEN "in" ELSE "out"])
                   ELSE [BuyTake("isUserInRange") EXCEPT
                            !.inRange = "in",
                            !.pend = {"getOutBuyPriceForGameUser"}]
    /\ UNCHANGED <<balance, buyFrame>>

\* The callback of liveShop.getOutBuyPriceForGameUser.
BuyPriceCb ==
    /\ "getOutBuyPriceForGameUser" \in buy.pend
    /\ \E err \in BOOLEAN, price \in Prices :
         buy' = IF err
                THEN BuyCallbackError(BuyTake("getOutBuyPriceForGameUser"))
                ELSE [BuyTake("getOutBuyPriceForGameUser") EXCEPT
                         !.price = price, !.pend = {"getOut"}]
    /\ UNCHANGED <<balance, buyFrame>>

\* The callback of gameUser.getOut.
BuyOutCb ==
    /\ "getOut" \in buy.pend
    /\ \E err \in BOOLEAN :
         buy' = IF err THEN BuyCallbackError(BuyTake("getOut"))
                ELSE [BuyTake("getOut") EXCEPT
                         !.outCurrent = balance.out, !.pend = {"getMoney"}]
    /\ UNCHANGED <<balance, buyFrame>>

\* The amount of out to deposit.
BuyOutAmount(packet, outCurrent) ==
    IF packet.all = "true" THEN outCurrent ELSE ParseInt(packet.outAmount)

BuyAmountIsZeroNever(outAmount) == FALSE

\* outAmount === 0
BuyAmountIsZero(outAmount) == outAmount = 0

\* The checks of the amount, and the start of the first write.
BuyCheckAmount(b) ==
    IF JsGreater(b.outAmount, b.outCurrent) THEN BuyRefuse(b, "tooMuch")
    ELSE IF JsLess(b.outAmount, 0) THEN BuyCallbackError(b)
    ELSE IF BuyAmountIsZero(b.outAmount) THEN BuyRefuse(b, "zero")
    ELSE [b EXCEPT !.phase = "writes", !.pend = {"subtractOut"}]

\* The callback of gameUser.getMoney.
BuyMoneyCb ==
    /\ "getMoney" \in buy.pend
    /\ \E err \in BOOLEAN :
         buy' = IF err THEN BuyCallbackError(BuyTake("getMoney"))
                ELSE BuyCheckAmount(
                        [BuyTake("getMoney") EXCEPT
                            !.moneyCurrent = balance.money,
                            !.outAmount =
                                BuyOutAmount(buy.packet, buy.outCurrent)])
    /\ UNCHANGED <<balance, buyFrame>>

\* The callback of gameUser.subtractOut.
BuySubtractOutCb ==
    /\ "subtractOut" \in buy.pend
    /\ \E err \in BOOLEAN :
         IF err
         THEN /\ buy' = BuyCallbackError(BuyTake("subtractOut"))
              /\ UNCHANGED balance
         ELSE /\ balance' = [balance EXCEPT
                                !.out = JsSubtract(@, buy.outAmount)]
              /\ buy' = [BuyTake("subtractOut") EXCEPT
                            !.moneyAmount = BuyIncome(buy.outAmount, buy.price),
                            !.pend = {"addMoney"}]
    /\ UNCHANGED buyFrame

\* The callback of gameUser.addMoney.
BuyAddMoneyCb ==
    /\ "addMoney" \in buy.pend
    /\ \E err \in BOOLEAN :
         IF err
         THEN /\ buy' = BuyCallbackError(BuyTake("addMoney"))
              /\ UNCHANGED balance
         ELSE /\ balance' = [balance EXCEPT !.money = JsAdd(@, buy.moneyAmount)]
              /\ buy' = [BuyTake("addMoney") EXCEPT
                            !.phase = "paid", !.pend = {"getBalanceTable"}]
    /\ UNCHANGED buyFrame

\* The callback of liveUser.getBalanceTable.
BuyBalanceTableCb ==
    /\ "getBalanceTable" \in buy.pend
    /\ \E err \in BOOLEAN :
         buy' = IF err THEN BuyTake("getBalanceTable")
                ELSE [BuyTake("getBalanceTable") EXCEPT
                         !.replies = Append(@, "sold")]
    /\ UNCHANGED <<balance, buyFrame>>

ShopLists == {Ascending(S) : S \in SUBSET ShopIds}

InitBuy ==
    /\ MemInit
    /\ EnvFixed
    /\ FactoryFixed
    /\ conq = ConqIdle
    /\ atk = AtkIdle
    /\ GameFixed
    /\ vis = VisIdle
    /\ SendFixed
    /\ tick = TickIdle
    /\ shops \in ShopLists
    /\ balance \in [out : 0..MaxStock, money : {0, 1}]
    /\ buy = BuyIdle
    /\ LateFixed

NextBuy ==
    \/ \E packet \in Packets, sessionValid \in BOOLEAN :
         BuyOutHandler(packet, sessionValid)
    \/ BuyGameUserCb
    \/ BuyLiveUserCb
    \/ BuyInRangeCb
    \/ BuyPriceCb
    \/ BuyOutCb
    \/ BuyMoneyCb
    \/ BuySubtractOutCb
    \/ BuyAddMoneyCb
    \/ BuyBalanceTableCb

SpecBuy == InitBuy /\ [][NextBuy]_vars

\* The request has been carried out: both writes have completed.
BuyPaid == buy.phase = "paid"

\* C13: when a buy-out has succeeded with amount a and unit price p, the
\* out balance is a below and the money balance round(a * p) above what they
\* were when the request arrived, round(a * p) being the integer nearest to
\* a * p, the upper one of two; with all === true the amount was the whole
\* out balance and the out balance is zero.
C13_BuyOut ==
    (BuyPaid /\ buy.outAmount # NaN) =>
        /\ buy.outAmount =
              IF buy.packet.all = "true" THEN buy.before.out
              ELSE ParseInt(buy.packet.outAmount)
        /\ balance.out = buy.before.out - buy.outAmount
        /\ 2 * (balance.money - buy.before.money) - buy.outAmount * buy.price
              \in {0, 1}
        /\ buy.packet.all = "true" => balance.out = 0

\* A whole out balance and a part of one were sold at a price with halves.
C13_Witness ==
    /\ BuyPaid
    /\ buy.outAmount = 1
    /\ buy.price = 3
    /\ balance.money = buy.before.money + 2
    /\ balance.out = buy.before.out - 1
    /\ buy.replies = <<"sold">>

\* The amount the request asks for.
BuyRequested ==
    IF buy.packet.all = "true" THEN buy.before.out
    ELSE ParseInt(buy.packet.outAmount)

\* The cases in which a request is to be refused.
BuyRefusalCase ==
    \/ buy.packet.shop = NoShop
    \/ ~buy.packet.amountGiven /\ buy.packet.all = "absent"
    \/ ~buy.sessionValid
    \/ buy.packet.shop \notin Range(shops)
    \/ buy.liveUser = NullUser
    \/ buy.inRange = "out"
    \/ BuyRequested # NaN /\ BuyRequested > buy.before.out
    \/ BuyRequested # NaN /\ BuyRequested < 0
    \/ BuyRequested = 0

\* C14: a buy-out request without a shop, with neither an amount nor the
\* all flag, from a session that is not valid, for a token no live shop has,
\* of a live user who is missing or not in range, or for an amount above the
\* user's out, below zero or zero, never starts a write and leaves the out
\* and money balances as they were; when it has ended it was answered with
\* one refusal, unless the range check threw.
C14_Refused ==
    (buy.phase # "idle" /\ BuyRefusalCase) =>
        /\ balance = buy.before
        /\ buy.phase \notin {"writes", "paid"}
        /\ buy.pend = {} =>
              \/ buy.phase = "threw"
              \/ /\ buy.phase \in {"failed", "refused"}
                 /\ Len(buy.replies) = 1
                 /\ buy.replies[1] # "sold"

\* A request for more than the user has was refused after every lookup.
C14_Witness ==
    /\ buy.phase = "refused"
    /\ buy.replies = <<"tooMuch">>
    /\ buy.inRange = "in"
    /\ BuyRequested > buy.before.out
    /\ balance = buy.before

(***************************************************************************)
(* Shop.load and the two timer functions it defines.                       *)
(*                                                                         *)
(* The getConfig callback of load sets the timer of                        *)
(* functionPrepareTransfer, whether or not the token lookup of load        *)
(* succeeds: every shop starts with that timer set.  A timer that is set   *)
(* fires at any later moment.  The shop manager is not part of the         *)
(* sources: a shop whose timer is set may or may not be in its list,       *)
(* findNewShopUser calls back a user or null, and                          *)
(* getTeamPreferredShopCountDelta calls back a number.                     *)
(***************************************************************************)
Deltas == -1..0

\* functionPrepareTransfer up to its first lookup.
ShopPrepare(s) ==
    /\ shop[s].timer = "prepare"
    /\ \E teamModelNull \in BOOLEAN :
         shop' = [shop EXCEPT ![s].timer = "none",
                              ![s].kept = FALSE,
                              ![s].teamModelNull = teamModelNull,
                              ![s].newUser = NullUser,
                              ![s].delta = 0,
                              ![s].pend = IF teamModelNull THEN @
                                          ELSE @ \cup {"findNewShopUser"}]
    /\ UNCHANGED <<shops, shopFrame>>

ShopFindUserCb(s) ==
    /\ "findNewShopUser" \in shop[s].pend
    /\ \E err \in BOOLEAN, newUser \in Users \cup {NullUser} :
         shop' = [shop EXCEPT ![s].pend =
                                 (@ \ {"findNewShopUser"}) \cup
                                 (IF err THEN {} ELSE {"delta"}),
                              ![s].newUser = IF err THEN @ ELSE newUser]
    /\ UNCHANGED <<shops, shopFrame>>

ShopKeepNever(newUser, delta) == FALSE

\* newUser == null && delta >= 0.
ShopKeep(newUser, delta) == newUser = NullUser /\ delta >= 0

\* The getTeamPreferredShopCountDelta callback: the prepare timer is set
\* again, or the transfer timer is set and the owner is told.
ShopDeltaCb(s) ==
    /\ "delta" \in shop[s].pend
    /\ \E err \in BOOLEAN, delta \in Deltas :
         LET r == [shop[s] EXCEPT !.pend = @ \ {"delta"}]
         IN  shop' = [shop EXCEPT ![s] =
                 IF err THEN r
                 ELSE IF ShopKeep(r.newUser, delta)
                 THEN [r EXCEPT !.delta = delta, !.timer = "prepare",
                                !.kept = TRUE]
                 ELSE [r EXCEPT !.delta = delta, !.timer = "transfer",
                                !.scheduled = r.newUser # NullUser,
                                !.notes = Append(@,
                                    IF r.newUser = NullUser THEN "lose soon"
                                    ELSE "given soon")]]
    /\ UNCHANGED <<shops, shopFrame>>

\* functionTransfer.
ShopTransfer(s) ==
    /\ shop[s].timer = "transfer"
    /\ shops' = Splice1(shops, IndexOf(shops, s))
    /\ shop' = [shop EXCEPT ![s].timer = "none",
                            ![s].transferred = TRUE,
                            ![s].notes = Append(@, "no longer a dealer")]
    /\ UNCHANGED shopFrame

InitShop ==
    /\ MemInit
    /\ EnvFixed
    /\ FactoryFixed
    /\ conq = ConqIdle
    /\ atk = AtkIdle
    /\ GameFixed
    /\ vis = VisIdle
    /\ SendFixed
    /\ tick = TickIdle
    /\ shops \in ShopLists
    /\ balance = [out |-> 0, money |-> 0]
    /\ buy = BuyIdle
    /\ shop = [s \in ShopIds |-> [ShopIdle[s] EXCEPT !.timer = "prepare"]]
    /\ upd = UpdIdle
    /\ rng = RangeIdle

NextShop ==
    \E s \in ShopIds :
        \/ ShopPrepare(s)
        \/ ShopFindUserCb(s)
        \/ ShopDeltaCb(s)
        \/ ShopTransfer(s)

SpecShop == InitShop /\ [][NextShop]_vars

\* The transfer step of shop s ran in this step.
ShopTransferStep(s) == ~shop[s].transferred /\ shop'[s].transferred

\* The prepare step of shop s decided in this step, on newUser and delta.
ShopDecideStep(s) ==
    /\ "delta" \in shop[s].pend
    /\ shop'[s].timer # "none"

\* C15: the shop list changes, and an owner is told 'You're no longer a
\* dealer', only in a transfer step; the transfer timer of a shop is set,
\* and its transfer step has run, only after a prepare step of that shop
\* found a replacement user or a delta below zero; a prepare step that
\* found no replacement user and a delta >= 0 leaves the shop list as it is
\* and sets the prepare timer again.
C15_Handover ==
    [][/\ shops' # shops => \E s \in ShopIds : ShopTransferStep(s)
       /\ \A s \in ShopIds :
            /\ shop'[s].notes # shop[s].notes /\
               shop'[s].notes[Len(shop'[s].notes)] = "no longer a dealer"
                   => ShopTransferStep(s)
            /\ ShopTransferStep(s) =>
                   /\ shop[s].timer = "transfer"
                   /\ Len(shops') = (IF Len(shops) = 0 THEN 0
                                     ELSE Len(shops) - 1)
                   /\ s \in Range(shops) => Range(shops') = Range(shops) \ {s}
            /\ (shop'[s].timer = "transfer" \/ shop'[s].transferred) =>
                   (shop'[s].newUser # NullUser \/ shop'[s].delta < 0)
            /\ (ShopDecideStep(s) /\ shop'[s].newUser = NullUser
                    /\ shop'[s].delta >= 0) =>
                   /\ shops' = shops
                   /\ shop'[s].timer = "prepare"
                   /\ ~shop'[s].transferred]_vars

\* One shop was handed over to a replacement user: it has left the list and
\* its owner has been told.  Another was kept by its prepare step: it is
\* in the list and its prepare timer is set again.
C15_Witness ==
    \E s, t \in ShopIds :
        /\ shop[s].transferred
        /\ shop[s].newUser # NullUser
        /\ shop[s].delta >= 0
        /\ s \notin Range(shops)
        /\ shop[s].notes = <<"given soon", "no longer a dealer">>
        /\ shop[t].kept
        /\ shop[t].timer = "prepare"
        /\ t \in Range(shops)

\* C22: a shop whose owner has a team has a pending prepare timer or a
\* pending transfer timer, or is in the middle of a prepare step, or is no
\* longer in the shop list, also after findNewShopUser or
\* getTeamPreferredShopCountDelta called back an error.
C22_TimerPending ==
    \A s \in ShopIds :
        ~shop[s].teamModelNull =>
            \/ shop[s].timer \in {"prepare", "transfer"}
            \/ shop[s].pend # {}
            \/ s \notin Range(shops)

(***************************************************************************)
(* Factory.updateVisibilityState.                                          *)
(*                                                                         *)
(* Several calls may be in flight; they are numbered in the order they are *)
(* started.  getVisibilityState calls back once, with an error or with the *)
(* visibility data it computed from what it read while it ran;             *)
(* broadcastData calls back an error or null.                              *)
(***************************************************************************)
\* The visible and inRange fields getVisibilityState can call back: a user
\* in range sees the factory.
UpdVisibilityData ==
    {d \in [visible : BOOLEAN, inRange : BOOLEAN] : d.inRange => d.visible}

UpdStarted == {i \in UpdCalls : upd[i].phase # "idle"}

UpdStateChangedBoth(visibleChanged, rangeChanged) ==
    visibleChanged /\ rangeChanged

\* stateChanged after the two set...Memory calls.
UpdStateChanged(visibleChanged, rangeChanged) ==
    visibleChanged \/ rangeChanged

UpdateVisibilityState(i, liveUser) ==
    /\ upd[i].phase = "idle"
    /\ UpdStarted = 1..(i - 1)
    /\ upd' = [upd EXCEPT
                 ![i].phase = "called",
                 ![i].user = liveUser,
                 ![i].pend = IF liveUser = NullUser THEN {}
                             ELSE {"getVisibilityState"},
                 ![i].cbs = IF liveUser = NullUser THEN <<"null">> ELSE <<>>]
    /\ UNCHANGED <<memVars, updFrame>>

\* The callback of this.getVisibilityState.
UpdVisibilityCb(i) ==
    /\ "getVisibilityState" \in upd[i].pend
    /\ \/ /\ upd' = [upd EXCEPT ![i].pend = {},
                                ![i].cbs = Append(@, "error")]
          /\ UNCHANGED <<memVars, updFrame>>
       \/ \E visibilityData \in UpdVisibilityData :
            LET liveUser == upd[i].user
                vm == SetMemory(userVisibleMem, liveUser,
                                visibilityData.visible)
                rm == SetMemory(userRangeMem, liveUser, visibilityData.inRange)
                stateChanged == UpdStateChanged(vm.ret, rm.ret)
            IN  /\ userVisibleMem' = vm.mem
                /\ userRangeMem' = rm.mem
                /\ memRet' = rm.ret
                /\ upd' = [upd EXCEPT
                     ![i].phase = "stored",
                     ![i].data = visibilityData,
                     ![i].stateChanged = stateChanged,
                     ![i].broadcasts = IF stateChanged THEN @ + 1 ELSE @,
                     ![i].pend = IF stateChanged THEN {"broadcastData"}
                                 ELSE {},
                     ![i].cbs = IF stateChanged THEN @
                                ELSE Append(@, "false")]
                /\ UNCHANGED <<userPingMem, shopRangeMem, updFrame>>

\* The callback of self.broadcastData.
UpdBroadcastCb(i) ==
    /\ "broadcastData" \in upd[i].pend
    /\ \E err \in BOOLEAN :
         upd' = [upd EXCEPT ![i].pend = {},
                            ![i].cbs = Append(@, IF err THEN "error"
                                                 ELSE "true")]
    /\ UNCHANGED <<memVars, updFrame>>

InitUpd ==
    /\ MemInit
    /\ EnvFixed
    /\ FactoryFixed
    /\ conq = ConqIdle
    /\ atk = AtkIdle
    /\ GameFixed
    /\ vis = VisIdle
    /\ SendFixed
    /\ MoreFixed

NextUpd ==
    \E i \in UpdCalls :
        \/ \E liveUser \in Users \cup {NullUser} :
             UpdateVisibilityState(i, liveUser)
        \/ UpdVisibilityCb(i)
        \/ UpdBroadcastCb(i)

SpecUpd == InitUpd /\ [][NextUpd]_vars

\* Every call was made for liveUser and has called back without an error.
UpdAllCompleted(liveUser) ==
    \A i \in UpdCalls :
        /\ upd[i].user = liveUser
        /\ upd[i].phase = "stored"
        /\ upd[i].pend = {}
        /\ "error" \notin Range(upd[i].cbs)

\* The call that was started last.
UpdLatest == Cardinality(UpdStarted)

\* C16: when concurrent updateVisibilityState calls for one live user have
\* all completed without error, the user's membership in the visibility and
\* range memories is what the call started last computed.
C16_LatestWins ==
    \A liveUser \in Users :
        UpdAllCompleted(liveUser) =>
            /\ IsInVisibilityMemory(liveUser) = upd[UpdLatest].data.visible
            /\ IsInRangeMemory(liveUser) = upd[UpdLatest].data.inRange

\* Call i got its visibility data in this step.
UpdStoreStep(i) == upd[i].phase = "called" /\ upd'[i].phase = "stored"

\* What holds of the calls in every state.
UpdOutcome ==
    \A i \in UpdCalls :
        /\ upd[i].user = NullUser /\ upd[i].phase # "idle" =>
               upd[i].cbs = <<"null">> /\ upd[i].broadcasts = 0
        /\ upd[i].phase = "stored" =>
               /\ upd[i].broadcasts = (IF upd[i].stateChanged THEN 1 ELSE 0)
               /\ ~upd[i].stateChanged => upd[i].cbs = <<"false">>
               /\ upd[i].stateChanged =>
                      /\ upd[i].pend = {} => upd[i].cbs \in {<<"true">>, <<"error">>}
                      /\ upd[i].pend # {} => upd[i].cbs = <<>>
        /\ upd[i].phase = "called" => upd[i].broadcasts = 0

\* C17: the step in which a call for a non-null user gets its visibility
\* data leaves the user in the visibility memory exactly when visible and
\* in the range memory exactly when inRange, and no other user's membership
\* changes; the call broadcasts once and calls back true (or the error of
\* the broadcast) when a membership changed, and calls back false without a
\* broadcast when none did; a call for a null user calls back at once and
\* changes no memory.
C17_Update ==
    [][/\ UpdOutcome'
       /\ \A i \in UpdCalls :
            /\ UpdStoreStep(i) =>
                 /\ IsInVisibilityMemory(upd[i].user)' = upd'[i].data.visible
                 /\ IsInRangeMemory(upd[i].user)' = upd'[i].data.inRange
                 /\ upd'[i].stateChanged <=>
                      \/ IsInVisibilityMemory(upd[i].user)' #
                             IsInVisibilityMemory(upd[i].user)
                      \/ IsInRangeMemory(upd[i].user)' #
                             IsInRangeMemory(upd[i].user)
                 /\ \A u \in Users \ {upd[i].user} :
                      /\ IsInVisibilityMemory(u)' = IsInVisibilityMemory(u)
                      /\ IsInRangeMemory(u)' = IsInRangeMemory(u)
            /\ (upd[i].phase = "idle" /\ upd'[i].phase # "idle"
                    /\ upd'[i].user = NullUser) =>
                 /\ upd'[i].cbs = <<"null">>
                 /\ memVars' = memVars]_vars

\* One call changed a membership, broadcast and called back true; another
\* found nothing to change and called back false without a broadcast.
C17_Witness ==
    \E i, j \in UpdCalls :
        /\ upd[i].phase = "stored" /\ upd[i].stateChanged
        /\ upd[i].cbs = <<"true">> /\ upd[i].broadcasts = 1
        /\ upd[j].phase = "stored" /\ ~upd[j].stateChanged
        /\ upd[j].cbs = <<"false">> /\ upd[j].broadcasts = 0

(***************************************************************************)
(* Factory.getRange and Shop.getRange.                                     *)
(*                                                                         *)
(* The ranges are game configuration: a called back range is written as    *)
(* which of the two configured ranges it is and, for the factory, the      *)
(* level it was taken for.  The range memories may be set while a call is  *)
(* in flight.                                                              *)
(***************************************************************************)
\* gameConfig.factory.getActiveRange(level) and getRange(level).
FactoryRanges(level) ==
    [active |-> [which |-> "active", level |-> level],
     normal |-> [which |-> "normal", level |-> level]]

\* gameConfig.shop.activeRange and gameConfig.shop.range.
ShopRanges ==
    [active |-> [which |-> "active", level |-> 0],
     normal |-> [which |-> "normal", level |-> 0]]

\* What getRange calls back for an error.
RangeFailed == [which |-> "error", level |-> 0]

RangeChoiceNormal(ranges, inRangeMemory) == ranges.normal

\* The active range for a user in the range memory, the global one
\* otherwise.
RangeChoice(ranges, inRangeMemory) ==
    IF inRangeMemory THEN ranges.active ELSE ranges.normal

\* if(!calledBack) callback(err); calledBack = true.
RangeError(r) ==
    [r EXCEPT !.cbs = IF r.calledBack THEN @ ELSE Append(@, RangeFailed),
              !.calledBack = TRUE]

\* latch.resolve(), with the latch.then callback of Factory.getRange.
RangeLatchResolve(r) ==
    IF r.latch - 1 = 0
    THEN [r EXCEPT !.latch = 0,
                   !.cbs = Append(@, RangeChoice(FactoryRanges(r.level),
                                                 IsInRangeMemory(r.user)))]
    ELSE [r EXCEPT !.latch = @ - 1]

FactoryGetRange(liveUser) ==
    /\ rng.object = "none"
    /\ rng' = [rng EXCEPT !.object = "factory", !.user = liveUser,
                          !.latch = 2, !.pend = {"getConfig", "getLevel"}]
    /\ UNCHANGED <<memVars, rangeFrame>>

\* The getConfig callback of Factory.getRange.
RangeConfigCb ==
    /\ rng.object = "factory"
    /\ "getConfig" \in rng.pend
    /\ \E err \in BOOLEAN :
         LET r == [rng EXCEPT !.pend = @ \ {"getConfig"}]
         IN  rng' = IF err THEN RangeError(r) ELSE RangeLatchResolve(r)
    /\ UNCHANGED <<memVars, rangeFrame>>

\* The getLevel callback of Factory.getRange.
RangeLevelCb ==
    /\ rng.object = "factory"
    /\ "getLevel" \in rng.pend
    /\ \E err \in BOOLEAN :
         LET r == [rng EXCEPT !.pend = @ \ {"getLevel"}]
         IN  rng' = IF err THEN RangeError(r)
                    ELSE RangeLatchResolve([r EXCEPT !.level = factory.level])
    /\ UNCHANGED <<memVars, rangeFrame>>

ShopGetRange(liveUser) ==
    /\ rng.object = "none"
    /\ rng' = [rng EXCEPT !.object = "shop", !.user = liveUser,
                          !.pend = {"getConfig"}]
    /\ UNCHANGED <<memVars, rangeFrame>>

\* The getConfig callback of Shop.getRange.
ShopRangeConfigCb ==
    /\ rng.object = "shop"
    /\ "getConfig" \in rng.pend
    /\ \E err \in BOOLEAN :
         rng' = [rng EXCEPT
                   !.pend = {},
                   !.cbs = Append(@,
                       IF err THEN RangeFailed
                       ELSE RangeChoice(ShopRanges,
                                        ShopIsInRangeMemory(rng.user)))]
    /\ UNCHANGED <<memVars, rangeFrame>>

\* A user enters or leaves the range memory of the factory.
RangeSetMemory ==
    /\ \E u \in Users, b \in BOOLEAN : SetInRangeMemory(u, b)
    /\ UNCHANGED memFrame

\* A user enters or leaves the range memory of the shop.
RangeShopSetMemory ==
    /\ \E u \in Users, b \in BOOLEAN : ShopSetInRangeMemory(u, b)
    /\ UNCHANGED memFrame

InitRange ==
    /\ userVisibleMem = <<>>
    /\ userRangeMem \in AscendingMemories
    /\ userPingMem = <<>>
    /\ shopRangeMem \in AscendingMemories
    /\ memRet = FALSE
    /\ EnvFixed
    /\ \E l \in 1..MaxLevel :
         factory = [team |-> NoTeam, level |-> l, in |-> 0, out |-> 0,
                    defence |-> 0, deleted |-> FALSE, loaded |-> TRUE]
    /\ conq = ConqIdle
    /\ atk = AtkIdle
    /\ GameFixed
    /\ vis = VisIdle
    /\ SendFixed
    /\ MoreFixed

NextRange ==
    \/ \E liveUser \in Users \cup {UndefinedUser} : FactoryGetRange(liveUser)
    \/ RangeConfigCb
    \/ RangeLevelCb
    \/ \E liveUser \in Users \cup {UndefinedUser} : ShopGetRange(liveUser)
    \/ ShopRangeConfigCb
    \/ RangeSetMemory
    \/ RangeShopSetMemory

SpecRange == InitRange /\ [][NextRange]_vars

\* The getRange call calls back in this step.
RangeCallsBack == Len(rng'.cbs) = Len(rng.cbs) + 1

\* C18: when Factory.getRange or Shop.getRange calls back a range, it is
\* the active range if the given live user is in the range memory of that
\* object at that moment, and the normal range if the user is not in it or
\* is undefined; the factory's range is the one of the factory's level.
C18_Hysteresis ==
    [][(RangeCallsBack /\ rng'.cbs[Len(rng'.cbs)] # RangeFailed) =>
          LET range == rng'.cbs[Len(rng'.cbs)]
              mem == IF rng.object = "factory" THEN userRangeMem
                     ELSE shopRangeMem
          IN  /\ range.which = (IF rng.user \in Range(mem) THEN "active"
                                ELSE "normal")
              /\ rng.user = UndefinedUser => range.which = "normal"
              /\ range.level = (IF rng.object = "factory" THEN factory.level
                                ELSE 0)
              /\ Len(rng'.cbs) = 1]_vars

\* Factory.getRange called back the active range of the factory's level for
\* a user in the range memory.
C18_Witness ==
    /\ rng.object = "factory"
    /\ rng.user \in Users
    /\ IsInRangeMemory(rng.user)
    /\ factory.level = MaxLevel
    /\ rng.cbs = <<[which |-> "active", level |-> factory.level]>>

(***************************************************************************)
(* The callbacks of attack, tick, sendData and getConquer.                 *)
(***************************************************************************)
\* C19: a call of Factory.attack, Factory.tick, Factory.sendData or
\* Factory.getConquer invokes its callback at most once, whichever of its
\* lookups fail and whenever they fail.
C19_AtMostOnce ==
    /\ \A u \in Users : Len(atk[u].cbs) <= 1
    /\ \A i \in Ticks : Len(tick[i].cbs) <= 1
    /\ Len(send.cbs) <= 1
    /\ Len(conq.cbs) <= 1

(***************************************************************************)
(* Concurrent attacks: every live user may attack while the attacks of     *)
(* other users are in flight.  The steps of each attack are those of       *)
(* SpecAttack.                                                             *)
(***************************************************************************)
AttackConcurrently(u) ==
    /\ atk[u].phase = "idle"
    /\ factory.loaded
    /\ atk' = [atk EXCEPT ![u] =
                 [@ EXCEPT !.phase = "check", !.latch = 3, !.before = factory,
                           !.pend = {"getTeam", "userGetTeam", "getConquer"}]]
    /\ UNCHANGED <<userTeam, factory, atkFrame>>

\* The factory has no team and is at level one or at a level above the
\* number of attackers; every user is in a team.
InitAttacks ==
    /\ MemInit
    /\ userTeam = [u \in Users |-> ((u - 1) % NumTeams) + 1]
    /\ userStrength = [u \in Users |-> Unknown]
    /\ userRecent = [u \in Users |-> FALSE]
    /\ \E l \in {1, NumUsers + 1} :
         factory = [team |-> NoTeam, level |-> l, in |-> 0, out |-> 0,
                    defence |-> 0, deleted |-> FALSE, loaded |-> TRUE]
    /\ conq = ConqIdle
    /\ atk = AtkIdle
    /\ GameFixed
    /\ vis = VisIdle
    /\ SendFixed
    /\ MoreFixed

NextAttacks ==
    \E u \in Users :
        \/ AttackConcurrently(u)
        \/ AttackFactoryTeamCb(u)
        \/ AttackUserTeamCb(u)
        \/ AttackConquerCb(u)
        \/ AttackLevelCb(u)
        \/ AttackNameCb(u)
        \/ AttackDestroyCb(u)
        \/ AttackReadCb(u)
        \/ AttackConfigCb(u)
        \/ AttackWriteCb(u)

SpecAttacks == InitAttacks /\ [][NextAttacks]_vars

\* The attacks that were called.
AtkAttackers == {u \in Users : AtkCalled(u)}

\* Every attack that was called has completed and called back null.
AtkAllSucceeded ==
    \A u \in AtkAttackers : atk[u].pend = {} /\ atk[u].cbs = <<"null">>

\* The level of the factory when the first of the attacks was called.
AtkStartLevel ==
    CHOOSE l \in 1..(NumUsers + 1) :
        /\ \E u \in AtkAttackers : atk[u].before.level = l
        /\ \A u \in AtkAttackers : atk[u].before.level <= l

\* C20: when k attacks, concurrent or not, have each called back null on a
\* factory that started at a level L > k, the stored level is L - k and the
\* factory's team is the team of one of the attackers.
C20_LevelPerAttack ==
    (AtkAttackers # {} /\ AtkAllSucceeded
        /\ AtkStartLevel > Cardinality(AtkAttackers)) =>
        /\ factory.level = AtkStartLevel - Cardinality(AtkAttackers)
        /\ \E u \in AtkAttackers : factory.team = atk[u].userTeam

(***************************************************************************)
(* Concurrent ticks: a tick may be called while other ticks of the same    *)
(* factory are in flight.  The steps of each tick are those of SpecTick.   *)
(***************************************************************************)
TickConcurrently(i) ==
    /\ tick[i].phase = "idle"
    /\ factory.loaded
    /\ tick' = [tick EXCEPT ![i] =
                   [@ EXCEPT !.phase = "lookups", !.latch = 3,
                             !.pend = {"getProductionIn", "getProductionOut",
                                       "getIn"},
                             !.before = factory]]
    /\ UNCHANGED <<factory, tickFrame>>

NextTicks ==
    \E i \in Ticks :
        \/ TickConcurrently(i)
        \/ TickProductionInCb(i)
        \/ TickProductionOutCb(i)
        \/ TickInCb(i)
        \/ TickSubtractInCb(i)
        \/ TickAddOutCb(i)
        \/ TickBroadcastCb(i)

SpecTicks == InitTick /\ [][NextTicks]_vars

\* C21: under any interleaving of concurrent ticks of one factory the in
\* stock never drops below zero.
C21_InNeverNegative == factory.in >= 0

(***************************************************************************)
(* SpecMem: the memories of one object, the factory or the shop, under any *)
(* sequence of set...Memory calls.  The two objects share no state, so a   *)
(* behaviour exercises one of them.                                        *)
(***************************************************************************)
MemSetVisibility ==
    /\ shopRangeMem = <<>>
    /\ \E u \in Users, b \in BOOLEAN : SetInVisibilityMemory(u, b)
    /\ UNCHANGED memFrame

MemSetRange ==
    /\ shopRangeMem = <<>>
    /\ \E u \in Users, b \in BOOLEAN : SetInRangeMemory(u, b)
    /\ UNCHANGED memFrame

MemSetPing ==
    /\ shopRangeMem = <<>>
    /\ \E u \in Users, b \in BOOLEAN : SetInPingMemory(u, b)
    /\ UNCHANGED memFrame

MemShopSetRange ==
    /\ userVisibleMem = <<>> /\ userRangeMem = <<>> /\ userPingMem = <<>>
    /\ \E u \in Users, b \in BOOLEAN : ShopSetInRangeMemory(u, b)
    /\ UNCHANGED memFrame

InitMem == MemInit /\ EnvFixed /\ FactoryFixed /\ conq = ConqIdle /\ atk = AtkIdle
    /\ GameFixed /\ vis = VisIdle /\ SendFixed /\ MoreFixed

NextMem == MemSetVisibility \/ MemSetRange \/ MemSetPing \/ MemShopSetRange

SpecMem == InitMem /\ [][NextMem]_vars

\* What C7 requires of one call set(user, b) that takes the memory from
\* `before` to `after` and returns `ret`.
SetPost(before, after, liveUser, b, ret) ==
    /\ ret = ((liveUser \in Range(before)) # b)
    /\ (liveUser \in Range(after)) = b
    /\ \A o \in Users \ {liveUser} : (o \in Range(after)) = (o \in Range(before))

\* C7: for each of the four memories, set(user, b) returns true exactly when
\* the user's membership before the call differed from b; after the call the
\* user's membership equals b and every other user's membership is unchanged.
C7_SetMemory ==
    [][\A u \in Users, b \in BOOLEAN :
        /\ SetInVisibilityMemory(u, b) =>
             /\ SetPost(userVisibleMem, userVisibleMem', u, b, memRet')
             /\ IsInVisibilityMemory(u)' = b
        /\ SetInRangeMemory(u, b) =>
             /\ SetPost(userRangeMem, userRangeMem', u, b, memRet')
             /\ IsInRangeMemory(u)' = b
        /\ SetInPingMemory(u, b) =>
             /\ SetPost(userPingMem, userPingMem', u, b, memRet')
             /\ IsInPingMemory(u)' = b
        /\ ShopSetInRangeMemory(u, b) =>
             /\ SetPost(shopRangeMem, shopRangeMem', u, b, memRet')
             /\ ShopIsInRangeMemory(u)' = b]_vars

\* A removal has just returned true from a memory that still holds another
\* user behind the removed one's position, in each kind of memory.
C7_Witness ==
    /\ memRet
    /\ Len(userVisibleMem) >= 1 /\ userVisibleMem[1] # 1
    /\ Len(userRangeMem) >= 1
    /\ Len(userPingMem) >= 1

====
